---------------------------- MODULE Spec2Model ----------------------------
(***************************************************************************)
(* Model of the PSX daily-report extraction pipeline:                      *)
(*   scrapper/execution.py            Execution.execution_by_extension     *)
(*   scrapper/datareader.py           DataReader, DataPreprocessor         *)
(*   scrapper/quotationextraction.py  PDFExtraction, get_quotes            *)
(*                                                                         *)
(* The dispatcher is a state machine (one step per routed file); the       *)
(* parsers and extractors are operators computed as the code computes      *)
(* them, each also explored on its own over a bounded input set.           *)
(***************************************************************************)
EXTENDS Integers, Sequences, FiniteSets, TLC

VARIABLES
    \* ---- Execution (execution.py) ----
    directory,        \* the files of the data folder, in iterdir() order
    file_path,        \* self.file_path: extension groups, in dict order
    files_deletion,   \* self.files_deletion
    pc,               \* position inside execution_by_extension
    gi,               \* index of the extension group being iterated
    fi,               \* index of the file inside the group
    df_list,          \* the list being built and returned
    routed,           \* <<file, parser>> calls made so far, in call order
    log,              \* log records written so far
    open_docs,        \* documents opened and not closed
    deleted,          \* TRUE once _delete_files_in_directory has run
    \* ---- DataPreprocessor.get_market_summary on its own ----
    ms_file, ms_result,
    \* ---- DataPreprocessor.get_omts on its own ----
    omts_file, omts_result,
    \* ---- PDFExtraction.extract_page_numbers on its own ----
    pdf_pages, target_page_nums_dict,
    \* ---- PDFExtraction.six_month_market_summary on its own ----
    sm_table, sm_result,
    \* ---- PDFExtraction.extract_sector_table on its own ----
    st_pages, st_nums, st_result,
    \* ---- PDFExtraction.extract_macro_view on its own ----
    mv_table, mv_meta, mv_result,
    \* ---- PDFExtraction.extract_event_table on its own ----
    ev_pages, ev_nums, ev_result,
    \* ---- FIPIDataProcessor.clean_numeric_re on its own ----
    cn_value, cn_result,
    \* ---- FIPIDataProcessor.clean_dataframe, run and run again ----
    cd_df, cd_once, cd_twice,
    \* ---- PDFExtraction.process_table, section by section ----
    pt_doc,           \* what each extractor reads from the opened document
    pt_items,         \* target_page_nums_dict.items(), in dict order, or None
    pt_pos,           \* position of the loop of line 61 in pt_items
    table_data,       \* the mapping being built
    pt_log,           \* log records written so far
    pt_result         \* what process_table returned

execVars == <<directory, file_path, files_deletion, pc, gi, fi, df_list,
              routed, log, open_docs, deleted>>
msVars   == <<ms_file, ms_result>>
omtsVars == <<omts_file, omts_result>>
locVars  == <<pdf_pages, target_page_nums_dict>>
smVars   == <<sm_table, sm_result>>
stVars   == <<st_pages, st_nums, st_result>>
mvVars   == <<mv_table, mv_meta, mv_result>>
evVars   == <<ev_pages, ev_nums, ev_result>>
cnVars   == <<cn_value, cn_result>>
cdVars   == <<cd_df, cd_once, cd_twice>>
ptVars   == <<pt_doc, pt_items, pt_pos, table_data, pt_log, pt_result>>
pureVars == <<msVars, omtsVars, locVars, smVars, stVars, mvVars, evVars, cnVars, cdVars, ptVars>>
vars     == <<execVars, pureVars>>

-----------------------------------------------------------------------------
(* Bounds of the exploration *)

MaxFiles == 3      \* files in the data folder
MaxMsRows == 3     \* rows of a market-summary listing
MaxOmtsRows == 4   \* rows of a composite CSV
MaxPages == 3      \* pages of a PDF document
MaxSmRows == 3     \* rows of the six-month summary page's table
MaxStPages == 2    \* pages after the cover page, for the sector table
MaxMvRows == 4     \* rows of the macro-view page's table
MaxEvPages == 3    \* pages after the cover page, for the event table
MaxChars == 4      \* characters of a cell handed to clean_numeric_re
MaxCdRows == 2     \* rows of a frame handed to clean_dataframe

-----------------------------------------------------------------------------
(* Values shared by all parsers *)

\* Python's None, as a returned / appended value
None == [kind |-> "None"]

\* a variable of a part of the model that is not running
Idle == [kind |-> "idle"]

\* the 1-based positions 1..n as a sequence
Positions(n) == [i \in 1..n |-> i]

RECURSIVE SeqMax(_)
SeqMax(s) ==
    IF s = <<>> THEN 0
    ELSE LET m == SeqMax(Tail(s)) IN IF Head(s) > m THEN Head(s) ELSE m

SetMin(S) == CHOOSE x \in S : \A y \in S : x <= y

-----------------------------------------------------------------------------
(* DataPreprocessor.get_market_summary  (datareader.py 92-121)             *)
(* A listing is [ncols, codes]: the number of pipe-separated columns and   *)
(* the Sector Code of each row.  Rows are named by their position.         *)

MsColumns == 10

SectorCodes == {39, 40, 41, 42}

\* line 112
InReadyMarket(code) == (code # 40) /\ (code # 41)

\* the derivatives mask with code 41 left out
InFutureMarket_Only40(code) == code = 40

\* line 113
InFutureMarket(code) == (code = 40) \/ (code = 41)

\* NoPath: the path argument is None (read_zip_file found no archive)
NoPath == [kind |-> "nopath"]

MsFile(ncols, codes) == [kind |-> "listing", ncols |-> ncols, codes |-> codes]

get_market_summary(file) ==
    IF file = NoPath THEN None                       \* read_csv(None) raises, line 120
    ELSE IF file.codes = <<>> THEN None              \* EmptyDataError, line 116
    ELSE IF file.ncols < MsColumns THEN None         \* df.columns = [...] raises, line 120
    ELSE [kind |-> "tuple",
          ready_market  |-> SelectSeq(Positions(Len(file.codes)),
                                      LAMBDA i : InReadyMarket(file.codes[i])),
          future_market |-> SelectSeq(Positions(Len(file.codes)),
                                      LAMBDA i : InFutureMarket(file.codes[i]))]

-----------------------------------------------------------------------------
(* DataPreprocessor.get_omts  (datareader.py 136-182)                      *)
(* A CSV row is [id, null, parts]: its 0-based index in the frame, whether *)
(* any of its cells is NaN, and the number of parts its MEMBER CODE splits *)
(* into on " ".                                                            *)

MemberKeys == 4    \* ["0", "BUYER", "2", "SELLER"]

\* line 151: df[df.isnull().any(axis=1)].index   (0-based labels)
NullIndex(rows) == {rows[i].id : i \in {j \in 1..Len(rows) : rows[j].null}}

\* line 153: df.loc[: separator_index - 1]   (label slice, both ends inclusive)
LocUpTo(rows, last) == SelectSeq(rows, LAMBDA r : r.id <= last)

\* the slice that drops the separator row alone
LocFrom_KeepNoise(rows, first) == SelectSeq(rows, LAMBDA r : r.id >= first - 1)

\* line 154: df.loc[separator_index + 2 :]
LocFrom(rows, first) == SelectSeq(rows, LAMBDA r : r.id >= first)

\* line 162: str.split(" ", expand=True) has as many columns as the longest split
SplitColumns(df1) == SeqMax([i \in 1..Len(df1) |-> df1[i].parts])

\* lines 162-179: BUYER is part 2, SELLER part 4; a shorter split leaves None
MemberRow(r) == [id |-> r.id, BUYER |-> r.parts >= 2, SELLER |-> r.parts >= 4]

Raised(why) == [kind |-> "raised", why |-> why]

get_omts(rows) ==
    IF NullIndex(rows) = {} THEN Raised("IndexError")            \* .index[0], line 151
    ELSE
      LET separator_index == SetMin(NullIndex(rows))
          df1 == LocUpTo(rows, separator_index - 1)
          df2 == LocFrom(rows, separator_index + 2)
      IN  IF SplitColumns(df1) # MemberKeys
          THEN Raised("ValueError")                              \* line 162
          ELSE [kind |-> "tuple",
                df1  |-> [i \in 1..Len(df1) |-> MemberRow(df1[i])],
                df2  |-> [i \in 1..Len(df2) |-> df2[i].id]]


-----------------------------------------------------------------------------
(* DataPreprocessor.get_indhist / get_open_interest (datareader.py 123-200) *)
(* A workbook is named by what reading it meets.                           *)

Frame(columns) == [kind |-> "frame", columns |-> columns]

IndhistColumns == {"SYMBOL", "IDX WT %", "ORD SHARES"}

get_indhist(content) ==
    CASE content = "unreadable" -> Raised("UnboundLocalError")   \* read_excel raises; line 134 reads df
      [] content = "nocolumns"  -> Frame({"sheet"})              \* line 129 raises; df is the whole sheet
      [] content = "baddate"    -> Frame(IndhistColumns)         \* line 130 raises; df has no date
      [] OTHER                  -> Frame(IndhistColumns \cup {"date"})

get_indhist_logs(content) == content \in {"unreadable", "nocolumns", "baddate"}

get_open_interest(content) ==
    IF content = "unreadable" THEN None                          \* line 200 prints, returns nothing
    ELSE Frame({"Symbol", "Category", "OI Contract", "OI Volume", "OI Value",
                "FF of Script", "% FF"})

-----------------------------------------------------------------------------
(* PDFExtraction.extract_page_numbers  (quotationextraction.py 30-51)      *)
(* A page is [ok, headers]: whether extract_text() yields a string, and    *)
(* the target header strings that are substrings of that text.             *)

S1  == "SECTION 1: MACRO VIEW OF THE MARKET"
S5  == "SECTION 5: BOARD MEETINGS"
S12 == "SECTION 12: ALL SHARES INDEX REPORT (SECTOR WISE)"
S13 == "SECTION 13: MAIN BOARD DATA FOR THE LAST 6 MONTHS"

\* lines 32-37
target_table_pattern == <<S1, S5, S12, S13>>

Page(headers) == [ok |-> TRUE, headers |-> headers]
NoTextPage    == [ok |-> FALSE, headers |-> {}]

\* the empty dict
EmptyDict == [p \in {} |-> <<>>]

\* the number one past the page's own
RecordedPage_PlusTwo(page_num) == page_num + 2

\* line 47: the number appended for the page enumerated as page_num
RecordedPage(page_num) == page_num + 1

\* the number appended twice over
AppendPageNum_Twice(nums, pattern, page_num) ==
    IF pattern \in DOMAIN nums
    THEN [nums EXCEPT ![pattern] = @ \o <<RecordedPage(page_num), RecordedPage(page_num)>>]
    ELSE [p \in DOMAIN nums \cup {pattern} |->
             IF p = pattern THEN <<RecordedPage(page_num), RecordedPage(page_num)>>
             ELSE nums[p]]

\* the number put at the front of the list
AppendPageNum_Prepend(nums, pattern, page_num) ==
    IF pattern \in DOMAIN nums
    THEN [nums EXCEPT ![pattern] = <<RecordedPage(page_num)>> \o @]
    ELSE [p \in DOMAIN nums \cup {pattern} |->
             IF p = pattern THEN <<RecordedPage(page_num)>> ELSE nums[p]]

\* lines 45-47
AppendPageNum(nums, pattern, page_num) ==
    IF pattern \in DOMAIN nums
    THEN [nums EXCEPT ![pattern] = Append(@, RecordedPage(page_num))]
    ELSE [p \in DOMAIN nums \cup {pattern} |->
             IF p = pattern THEN <<RecordedPage(page_num)>> ELSE nums[p]]

\* lines 43-47: the patterns from position k on, against one page
RECURSIVE ScanPatterns(_, _, _, _)
ScanPatterns(nums, page, page_num, k) ==
    IF k > Len(target_table_pattern) THEN nums
    ELSE ScanPatterns(IF target_table_pattern[k] \in page.headers
                      THEN AppendPageNum(nums, target_table_pattern[k], page_num)
                      ELSE nums,
                      page, page_num, k + 1)

\* lines 41-47: enumerate(target_pdf, start=1) from position page_num on
RECURSIVE ScanPages(_, _, _)
ScanPages(target_pdf, page_num, nums) ==
    IF page_num > Len(target_pdf) THEN [kind |-> "dict", pages |-> nums]
    ELSE IF ~target_pdf[page_num].ok THEN None                   \* line 44 raises, line 51
    ELSE ScanPages(target_pdf, page_num + 1,
                   ScanPatterns(nums, target_pdf[page_num], page_num, 1))

\* pages[0:], the cover page scanned with the others
SkipCover_Nothing(pages) == pages

\* line 40: self.target_pdf_file.pages[1:]
SkipCover(pages) == IF pages = <<>> THEN <<>> ELSE Tail(pages)

extract_page_numbers(pages) == ScanPages(SkipCover(pages), 1, EmptyDict)

-----------------------------------------------------------------------------
(* PDFExtraction.process_table and get_quotes                              *)
(* (quotationextraction.py 53-71, 240-243)                                 *)

\* lines 61-68: the extractor each located section is handed to
ExtractorOf(table_name) ==
    CASE table_name = S1  -> "extract_macro_view"
      [] table_name = S5  -> "extract_event_table"
      [] table_name = S12 -> "extract_sector_table"
      [] table_name = S13 -> "six_month_market_summary"

process_table(nums) ==
    IF nums = None THEN None                         \* None.items() raises, line 70
    ELSE [kind |-> "dict",
          tables |-> [table_name \in DOMAIN nums.pages |->
                         [by |-> ExtractorOf(table_name),
                          page_nums |-> nums.pages[table_name]]]]

\* lines 241-243: the summary is printed; nothing is returned
get_quotes(summary) ==
    IF summary = None THEN Raised("AttributeError") \* None.items(), line 242
    ELSE None

-----------------------------------------------------------------------------
(* The data folder.  A file is [suffix, stem, content]; content names what *)
(* the file holds, and the operators below give the concrete input.        *)

File(suffix, stem, content) == [suffix |-> suffix, stem |-> stem, content |-> content]

FileKinds ==
    {File(".Z", "mkt_summary", "rows"), File(".z", "mkt_summary", "empty"),
     File(".Z", "mkt_summary", "badzip")}
    \cup {File(".csv", "omts", c) : c \in {"split", "noseparator", "member"}}
    \cup {File(".xls", "fut_opn_int", c) : c \in {"sheet", "unreadable"}}
    \cup {File(".xls", "indhist", c) : c \in {"sheet", "unreadable", "nocolumns", "baddate"}}
    \cup {File(".pdf", "quote", c) : c \in {"sections", "corrupt", "notext"}}
    \cup {File(".lis", "closing11", "text")}

\* the listing an archive extracts to
Listing(content) ==
    IF content = "rows" THEN MsFile(10, <<39, 40, 41>>)
    ELSE MsFile(10, <<>>)

CsvRow(id, null, parts) == [id |-> id, null |-> null, parts |-> parts]

\* the rows of a composite CSV
CsvRows(content) ==
    CASE content = "split" ->
           <<CsvRow(0, FALSE, 4), CsvRow(1, FALSE, 4), CsvRow(2, TRUE, 1),
             CsvRow(3, FALSE, 1), CsvRow(4, FALSE, 1)>>
      [] content = "noseparator" -> <<CsvRow(0, FALSE, 4), CsvRow(1, FALSE, 4)>>
      [] OTHER -> <<CsvRow(0, FALSE, 5), CsvRow(1, TRUE, 1)>>

\* the pages of a quotation PDF
PdfPages(content) ==
    IF content = "notext" THEN <<Page({}), NoTextPage>>
    ELSE <<Page({}), Page({S1}), Page({S5}), Page({S12}), Page({S12, S13})>>

-----------------------------------------------------------------------------
(* DataReader.get_files and read_zip_file  (datareader.py 17-31, 71-87)    *)

\* line 24: file.suffix.lower()
Lower(suffix) ==
    CASE suffix = ".Z" -> ".z"
      [] OTHER -> suffix

\* lines 22-29: files are named by their position in the folder
RECURSIVE GroupFiles(_, _, _)
GroupFiles(dir, i, groups) ==
    IF i > Len(dir) THEN groups
    ELSE LET file_extension == Lower(dir[i].suffix)
             at == {g \in 1..Len(groups) : groups[g].extension = file_extension}
         IN  GroupFiles(dir, i + 1,
                 IF at # {}
                 THEN [groups EXCEPT ![CHOOSE g \in at : TRUE].files = Append(@, i)]
                 ELSE Append(groups, [extension |-> file_extension, files |-> <<i>>]))

get_files(dir) == GroupFiles(dir, 1, <<>>)

\* line 73: self.get_files().get('.z', [])
ZipFiles(dir) ==
    LET groups == get_files(dir)
        at == {g \in 1..Len(groups) : groups[g].extension = ".z"}
    IN  IF at = {} THEN <<>> ELSE groups[CHOOSE g \in at : TRUE].files

\* the archives ZipFile() is called on: all, or those up to the first bad one
ZipsOpened(dir) ==
    LET zip_files == ZipFiles(dir)
        bad == {i \in 1..Len(zip_files) : dir[zip_files[i]].content = "badzip"}
    IN  IF bad = {} THEN zip_files ELSE SubSeq(zip_files, 1, SetMin(bad))

read_zip_file(dir) ==
    LET zip_files == ZipFiles(dir)
    IN  IF zip_files = <<>> THEN NoPath                          \* lines 75, 86-87
        ELSE IF \E i \in 1..Len(zip_files) : dir[zip_files[i]].content = "badzip"
        THEN Raised("BadZipFile")                                \* line 78, not caught at 86
        ELSE Listing(dir[zip_files[Len(zip_files)]].content)     \* closing11.lis as last extracted

-----------------------------------------------------------------------------
(* Execution.execution_by_extension  (execution.py 66-111)                 *)

Call(file, parser) == [file |-> file, parser |-> parser]
Entry(file, df) == [src |-> file, df |-> df]
LogRec(level, at) == [level |-> level, at |-> at]

extension == file_path[gi].extension
files == file_path[gi].files
file == files[fi]

InLoop == pc = "loop" /\ gi <= Len(file_path)

AfterLoop(groups) == IF groups = <<>> THEN "after" ELSE "loop"

\* where the loops stand after the current file / the current group
LoopOn(g, f) ==
    /\ gi' = g
    /\ fi' = f
    /\ pc' = IF g > Len(file_path) THEN "after" ELSE "loop"

NextFile == IF fi < Len(files) THEN LoopOn(gi, fi + 1) ELSE LoopOn(gi + 1, 1)
NextGroup == LoopOn(gi + 1, 1)

\* insert(0, df) in place of append(df)
Insert_AtFront(list, e) == <<e>> \o list

\* lines 81, 86, 95, 100: df_list.append(df)
ListAppend(list, e) == Append(list, e)

\* lines 102-103: the exception leaves both loops
Except(logs) ==
    /\ pc' = "after"
    /\ log' = log \o logs \o <<LogRec("info", "execution_by_extension")>>
    /\ UNCHANGED <<gi, fi, df_list>>

\* lines 76-81
RouteZ ==
    /\ InLoop /\ extension = ".z"
    /\ LET extracted_file_path == read_zip_file(directory)
           opened == ZipsOpened(directory)
           calls == [i \in 1..Len(opened) |-> Call(opened[i], "read_zip_file")]
       IN  IF extracted_file_path.kind = "raised"
           THEN /\ routed' = routed \o calls
                /\ Except(<<>>)
           ELSE LET df == get_market_summary(extracted_file_path)
                    last == files[Len(files)]
                IN  /\ routed' = routed \o calls \o <<Call(last, "get_market_summary")>>
                    /\ df_list' = ListAppend(df_list, Entry(last, df))
                    /\ log' = IF df = None
                              THEN Append(log, LogRec("warning", "get_market_summary"))
                              ELSE log
                    /\ NextGroup
    /\ UNCHANGED <<directory, file_path, files_deletion, open_docs, deleted, pureVars>>

\* lines 83-86
RouteCsv ==
    /\ InLoop /\ extension = ".csv"
    /\ LET df == get_omts(CsvRows(directory[file].content))
       IN  /\ routed' = Append(routed, Call(file, "get_omts"))
           /\ IF df.kind = "raised"
              THEN Except(<<>>)
              ELSE /\ df_list' = ListAppend(df_list, Entry(file, df))
                   /\ log' = log
                   /\ NextFile
    /\ UNCHANGED <<directory, file_path, files_deletion, open_docs, deleted, pureVars>>

\* line 91: file.stem.startswith("fut_opn_int")
IsOpenInterest(stem) == stem = "fut_opn_int"

\* lines 88-95
RouteXls ==
    /\ InLoop /\ extension = ".xls"
    /\ LET open_interest == IsOpenInterest(directory[file].stem)
           content == directory[file].content
           df == IF open_interest THEN get_open_interest(content)
                 ELSE get_indhist(content)
           logs == IF ~open_interest /\ get_indhist_logs(content)
                   THEN <<LogRec("warning", "get_indhist")>> ELSE <<>>
       IN  /\ routed' = Append(routed, Call(file, IF open_interest THEN "get_open_interest"
                                                  ELSE "get_indhist"))
           /\ IF df.kind = "raised"
              THEN Except(logs)
              ELSE /\ df_list' = ListAppend(df_list, Entry(file, df))
                   /\ log' = log \o logs
                   /\ NextFile
    /\ UNCHANGED <<directory, file_path, files_deletion, open_docs, deleted, pureVars>>

\* lines 96-100, with PDFExtraction.__init__ (quotationextraction.py 18-28)
RoutePdf ==
    /\ InLoop /\ extension = ".pdf"
    /\ routed' = Append(routed, Call(file, "get_quotes"))
    /\ IF directory[file].content = "corrupt"
       THEN /\ open_docs' = open_docs                \* pdfplumber.open raises
            /\ Except(<<>>)
       ELSE LET nums == extract_page_numbers(PdfPages(directory[file].content))
                summary == process_table(nums)
                df == get_quotes(summary)
                logs == IF nums = None
                        THEN <<LogRec("error", "extract_page_numbers"),
                               LogRec("error", "process_table")>>
                        ELSE <<>>
            IN  /\ open_docs' = open_docs \cup {file} \* line 25; no close() follows
                /\ IF df.kind = "raised"
                   THEN Except(logs)
                   ELSE /\ df_list' = ListAppend(df_list, Entry(file, df))
                        /\ log' = log \o logs
                        /\ NextFile
    /\ UNCHANGED <<directory, file_path, files_deletion, deleted, pureVars>>

\* no branch of lines 76-100 matches: the group is passed over
RouteNone ==
    /\ InLoop /\ extension \notin {".z", ".csv", ".xls", ".pdf"}
    /\ NextGroup
    /\ UNCHANGED <<directory, file_path, files_deletion, df_list, routed, log,
                   open_docs, deleted, pureVars>>

\* the files deleted whether asked for or not
Finish_Unasked ==
    /\ pc = "after"
    /\ deleted' = TRUE
    /\ pc' = "done"
    /\ UNCHANGED <<directory, file_path, files_deletion, gi, fi, df_list, routed,
                   log, open_docs, pureVars>>

\* lines 105-111
Finish ==
    /\ pc = "after"
    /\ deleted' = files_deletion
    /\ pc' = "done"
    /\ UNCHANGED <<directory, file_path, files_deletion, gi, fi, df_list, routed,
                   log, open_docs, pureVars>>

Directories == UNION {[1..n -> FileKinds] : n \in 0..MaxFiles}

ExecInit ==
    /\ directory \in Directories
    /\ file_path = get_files(directory)              \* line 24
    /\ files_deletion \in BOOLEAN
    /\ pc = AfterLoop(file_path)
    /\ gi = 1 /\ fi = 1
    /\ df_list = <<>>                                \* line 71
    /\ routed = <<>> /\ log = <<>> /\ open_docs = {}
    /\ deleted = FALSE

ExecIdle ==
    /\ directory = <<>> /\ file_path = <<>> /\ files_deletion = FALSE
    /\ pc = "idle" /\ gi = 1 /\ fi = 1 /\ df_list = <<>>
    /\ routed = <<>> /\ log = <<>> /\ open_docs = {} /\ deleted = FALSE

MsIdle   == ms_file = Idle /\ ms_result = Idle
OmtsIdle == omts_file = Idle /\ omts_result = Idle
LocIdle  == pdf_pages = Idle /\ target_page_nums_dict = Idle
SmIdle   == sm_table = Idle /\ sm_result = Idle
StIdle   == st_pages = Idle /\ st_nums = Idle /\ st_result = Idle
MvIdle   == mv_table = Idle /\ mv_meta = Idle /\ mv_result = Idle
EvIdle   == ev_pages = Idle /\ ev_nums = Idle /\ ev_result = Idle
CnIdle   == cn_value = Idle /\ cn_result = Idle
CdIdle   == cd_df = Idle /\ cd_once = Idle /\ cd_twice = Idle
PtIdle   == /\ pt_doc = Idle /\ pt_items = Idle /\ pt_pos = 1
            /\ table_data = Idle /\ pt_log = <<>> /\ pt_result = Idle

Init == ExecInit /\ MsIdle /\ OmtsIdle /\ LocIdle /\ SmIdle /\ StIdle /\ MvIdle /\ EvIdle /\ CnIdle /\ CdIdle /\ PtIdle

Next ==
    \/ RouteZ
    \/ RouteCsv
    \/ RouteXls
    \/ RoutePdf
    \/ RouteNone
    \/ Finish

Spec == Init /\ [][Next]_vars

-----------------------------------------------------------------------------
(* get_market_summary on its own: every listing within the bounds          *)

CodeSeqs == UNION {[1..n -> SectorCodes] : n \in 0..MaxMsRows}

MsFiles == {MsFile(n, codes) : n \in {9, 10, 11}, codes \in CodeSeqs} \cup {NoPath}

MarketSummary ==
    /\ ms_result = Idle
    /\ ms_result' = get_market_summary(ms_file)
    /\ UNCHANGED <<ms_file, execVars, omtsVars, locVars, smVars, stVars, mvVars, evVars, cnVars, cdVars, ptVars>>

InitMarket ==
    /\ ms_file \in MsFiles /\ ms_result = Idle
    /\ ExecIdle /\ OmtsIdle /\ LocIdle /\ SmIdle /\ StIdle /\ MvIdle /\ EvIdle /\ CnIdle /\ CdIdle /\ PtIdle

NextMarket == MarketSummary

SpecMarket == InitMarket /\ [][NextMarket]_vars

-----------------------------------------------------------------------------
(* get_omts on its own: every composite CSV within the bounds, and the     *)
(* 12-row file with its separator at index 5                               *)

CsvRowKinds == {[null |-> FALSE, parts |-> n] : n \in {3, 4, 5}}
               \cup {[null |-> TRUE, parts |-> 0]}

\* rows carry their 0-based index, as read_csv numbers them
Numbered(kinds) == [i \in 1..Len(kinds) |-> CsvRow(i - 1, kinds[i].null, kinds[i].parts)]

TwelveRows == [i \in 1..12 |-> CsvRow(i - 1, i - 1 = 5, IF i - 1 = 5 THEN 0 ELSE 4)]

OmtsFiles ==
    {Numbered(k) : k \in UNION {[1..n -> CsvRowKinds] : n \in 0..MaxOmtsRows}}
    \cup {TwelveRows}

Omts ==
    /\ omts_result = Idle
    /\ omts_result' = get_omts(omts_file)
    /\ UNCHANGED <<omts_file, execVars, msVars, locVars, smVars, stVars, mvVars, evVars, cnVars, cdVars, ptVars>>

InitOmts ==
    /\ omts_file \in OmtsFiles /\ omts_result = Idle
    /\ ExecIdle /\ MsIdle /\ LocIdle /\ SmIdle /\ StIdle /\ MvIdle /\ EvIdle /\ CnIdle /\ CdIdle /\ PtIdle

NextOmts == Omts

SpecOmts == InitOmts /\ [][NextOmts]_vars

-----------------------------------------------------------------------------
(* extract_page_numbers on its own: every document within the bounds, and  *)
(* the 5-page documents whose third page alone holds the Section 5 header  *)

PageKinds == {Page(h) : h \in SUBSET {S1, S5, S12, S13}} \cup {NoTextPage}

FivePages(h) == [i \in 1..5 |-> IF i = 3 THEN Page({S5} \cup h) ELSE Page({})]

Documents ==
    UNION {[1..n -> PageKinds] : n \in 0..MaxPages}
    \cup {FivePages(h) : h \in SUBSET {S1, S12, S13}}

Locate ==
    /\ target_page_nums_dict = Idle
    /\ target_page_nums_dict' = extract_page_numbers(pdf_pages)
    /\ UNCHANGED <<pdf_pages, execVars, msVars, omtsVars, smVars, stVars, mvVars, evVars, cnVars, cdVars, ptVars>>

InitLocator ==
    /\ pdf_pages \in Documents /\ target_page_nums_dict = Idle
    /\ ExecIdle /\ MsIdle /\ OmtsIdle /\ SmIdle /\ StIdle /\ MvIdle /\ EvIdle /\ CnIdle /\ CdIdle /\ PtIdle

NextLocator == Locate

SpecLocator == InitLocator /\ [][NextLocator]_vars

-----------------------------------------------------------------------------
(* Properties of the dispatcher (Spec)                                     *)

Elems(s) == {s[i] : i \in DOMAIN s}

RECURSIVE Flatten(_)
Flatten(groups) ==
    IF groups = <<>> THEN <<>> ELSE Head(groups).files \o Flatten(Tail(groups))

\* the files in the order the loops of execution_by_extension meet them
EnumOrder == Flatten(file_path)
EnumPos(f) == CHOOSE k \in 1..Len(EnumOrder) : EnumOrder[k] = f

Routable == {".z", ".csv", ".xls", ".pdf"}

\* C1: dispatcher failure isolation.  When the run has ended, every file of
\* every group that has a parser has been handed to its parser, whatever
\* happened to the files before it: a failing file stops nothing after it.
C1_FailureIsolation ==
    pc = "done" =>
        \A g \in 1..Len(file_path) :
            file_path[g].extension \in Routable =>
                \A k \in 1..Len(file_path[g].files) :
                    \E c \in 1..Len(routed) : routed[c].file = file_path[g].files[k]

\* C4: PDF routing result.  The entry the dispatcher appends for a PDF file
\* is the mapping section name -> table built by process_table, never an
\* absent value.
C4_PdfEntryIsMapping ==
    \A i \in 1..Len(df_list) :
        Lower(directory[df_list[i].src].suffix) = ".pdf" => df_list[i].df.kind = "dict"

\* the entries of df_list, and the parser calls, follow the enumeration order
C5_InEnumerationOrder ==
    /\ \A i, j \in 1..Len(df_list) :
          i < j => EnumPos(df_list[i].src) < EnumPos(df_list[j].src)
    /\ \A i, j \in 1..Len(routed) :
          i < j => EnumPos(routed[i].file) <= EnumPos(routed[j].file)

\* one step leaves df_list alone or adds one entry at its end
C5_AppendOnly ==
    \/ df_list' = df_list
    \/ /\ Len(df_list') = Len(df_list) + 1
       /\ SubSeq(df_list', 1, Len(df_list)) = df_list

\* C5: output ordering.  Files are processed one at a time in enumeration
\* order (group by group, list order inside a group), the entries of df_list
\* are in the order their source files were processed, and no step puts an
\* entry before one produced by an earlier file.
C5_OutputOrdering == [](C5_InEnumerationOrder) /\ [][C5_AppendOnly]_vars

\* C5 witness: a finished run over two groups whose output order is the
\* enumeration order and not the folder order.
C5_Witness ==
    /\ pc = "done"
    /\ Len(file_path) >= 2
    /\ Len(df_list) = 3
    /\ df_list[2].src > df_list[3].src

\* C6: resource scoping.  At most one document is open at any moment, and
\* every document that was opened has been released when the run has ended.
C6_ResourceScoping ==
    /\ Cardinality(open_docs) <= 1
    /\ pc = "done" => open_docs = {}

-----------------------------------------------------------------------------
(* Properties of get_market_summary (SpecMarket)                           *)

\* C2: market-summary split.  The ready and derivatives subsets are
\* disjoint, together they are all rows of the input, and a row is in the
\* derivatives subset exactly when its Sector Code is 40 or 41.
C2_MarketSplit ==
    ms_result.kind = "tuple" =>
        LET ready == Elems(ms_result.ready_market)
            future == Elems(ms_result.future_market)
            all == 1..Len(ms_file.codes)
        IN  /\ ready \cap future = {}
            /\ ready \cup future = all
            /\ \A i \in all : i \in future <=> ms_file.codes[i] \in {40, 41}

\* C2 witness: a split listing with rows on both sides, codes 40 and 41 among them.
C2_Witness ==
    /\ ms_result.kind = "tuple"
    /\ ms_file.codes = <<41, 39, 40>>
    /\ ms_result.ready_market # <<>>
    /\ ms_result.future_market # <<>>

-----------------------------------------------------------------------------
(* Properties of extract_page_numbers (SpecLocator)                        *)

\* C3 as stated: a page at 1-based position p >= 2 holding a header adds
\* p + 1 to that header's list; the 5-page document whose page at 0-based
\* index 2 holds the Section 5 header gives [4].
C3_OffsetPlusOne ==
    target_page_nums_dict.kind = "dict" =>
        /\ \A p \in 2..Len(pdf_pages) : \A h \in pdf_pages[p].headers :
              /\ h \in DOMAIN target_page_nums_dict.pages
              /\ p + 1 \in Elems(target_page_nums_dict.pages[h])
        /\ pdf_pages = FivePages({}) => target_page_nums_dict.pages[S5] = <<4>>

\* C3 amended: a page at 1-based position p >= 2 holding a header adds p,
\* its own 1-based number, to that header's list; the 5-page document whose
\* page at 0-based index 2 holds the Section 5 header gives [3].
C3_OffsetIsPageNumber ==
    target_page_nums_dict.kind = "dict" =>
        /\ \A p \in 2..Len(pdf_pages) : \A h \in pdf_pages[p].headers :
              /\ h \in DOMAIN target_page_nums_dict.pages
              /\ p \in Elems(target_page_nums_dict.pages[h])
        /\ pdf_pages = FivePages({}) => target_page_nums_dict.pages[S5] = <<3>>

\* C3 witness: the 5-page document has been scanned.
C3_Witness ==
    /\ pdf_pages = FivePages({})
    /\ target_page_nums_dict.kind = "dict"

-----------------------------------------------------------------------------
(* Properties of get_omts (SpecOmts)                                       *)

\* positions (1-based) of the rows holding a null cell
NullRows(rows) == {j \in 1..Len(rows) : rows[j].null}

\* C7: composite CSV split.  With the first null row at 0-based index s,
\* table A is rows 0..s-1 and table B is rows s+2..end, in order; the
\* 12-row file with its null row at index 5 gives A = rows 0..4 and
\* B = rows 7..11.
C7_CompositeSplit ==
    /\ omts_result.kind = "tuple" =>
          LET s == SetMin(NullRows(omts_file)) - 1
              n == Len(omts_file)
              a == [i \in 1..Len(omts_result.df1) |-> omts_result.df1[i].id]
          IN  /\ a = [i \in 1..s |-> i - 1]
              /\ omts_result.df2 = [i \in 1..(IF n > s + 2 THEN n - (s + 2) ELSE 0) |-> s + 1 + i]
    /\ (omts_file = TwelveRows /\ omts_result # Idle) =>
          /\ omts_result.kind = "tuple"
          /\ [i \in 1..Len(omts_result.df1) |-> omts_result.df1[i].id] = <<0, 1, 2, 3, 4>>
          /\ omts_result.df2 = <<7, 8, 9, 10, 11>>

\* C7 witness: the 12-row file has been split.
C7_Witness ==
    /\ omts_file = TwelveRows
    /\ omts_result.kind = "tuple"

\* C8: composite CSV structural errors.  get_omts fails whenever no row
\* holds a null cell, and whenever some row of table A has a MEMBER CODE
\* that does not split into exactly four parts.
C8_StructuralErrors ==
    omts_result # Idle =>
        LET nulls == NullRows(omts_file)
            tableA == IF nulls = {} THEN {} ELSE 1..(SetMin(nulls) - 1)
        IN  (nulls = {} \/ \E i \in tableA : omts_file[i].parts # 4)
                => omts_result.kind = "raised"

-----------------------------------------------------------------------------
(* PDFExtraction.six_month_market_summary  (quotationextraction.py 189-237) *)
(* The argument is the table extract_table() gives for the page            *)
(* pages[targeted_pages_nums[0] - 1]: a sequence of rows, each a sequence  *)
(* of cells; NoTable when the page holds no table.                         *)

SmColumns == 7

\* lines 224-230
SmSchema == <<"Month at the Close", "Listed Capital(million)",
              "Market Capitalization(million)", "Turnover In Ready MRKT",
              "Turnover In Future MRKT", "KSE 100 Index", "KSE All Share">>

\* the cells of the model
NoneCell  == "<None>"
S14       == "SECTION 14: DEFAULTER SEGMENT"
S14Spaced == "SECTION 14:  DEFAULTER\n SEGMENT"
S14Contd  == "SECTION 14: DEFAULTER SEGMENT (Contd.)"
Month     == "Jan 2024"
Amount    == "1,234.5"
Plain     == "1234.5"

NoTable == [kind |-> "notable"]
Table(rows) == [kind |-> "table", rows |-> rows]

\* line 206: "SECTION 13: ..." in cell
ContainsS13(cell) == cell = S13

\* line 214: re.sub(r"\s+", " ", cell)
CollapseWs(cell) == IF cell = S14Spaced THEN S14 ELSE cell

\* line 234: replace(",", "", regex=True)
StripCommas(cell) == IF cell = Amount THEN Plain ELSE cell

\* lines 210-212: [cell for cell in table if cell is not None]
DropNone(row) == SelectSeq(row, LAMBDA cell : cell # NoneCell)

\* appending from the first row on, marker or not
IsMarker_Always(row) == TRUE

\* lines 204-207
IsMarker(row) == row[1] # NoneCell /\ ContainsS13(row[1])

\* line 218: "SECTION 14: DEFAULTER SEGMENT" in clean_table   (list membership)
IsStopRow(clean_table) == \E k \in 1..Len(clean_table) : clean_table[k] = S14

\* the frame that gets its column names from its rows: none when it has no row
SmFrame_Unnamed(target_table) ==
    LET widths == [i \in 1..Len(target_table) |-> Len(target_table[i].cells)]
    IN  IF target_table # <<>> /\ SeqMax(widths) # SmColumns
        THEN None
        ELSE LET kept == SelectSeq(target_table, LAMBDA r : Len(r.cells) = SmColumns)
             IN  [kind |-> "frame",
                  columns |-> IF target_table = <<>> THEN <<>> ELSE SmSchema,
                  rows |-> [i \in 1..Len(kept) |->
                              [id |-> kept[i].id,
                               cells |-> [k \in 1..SmColumns |-> StripCommas(kept[i].cells[k])]]]]

\* lines 221-235: DataFrame(target_table, columns=...), dropna, replace
SmFrame(target_table) ==
    LET widths == [i \in 1..Len(target_table) |-> Len(target_table[i].cells)]
    IN  IF target_table # <<>> /\ SeqMax(widths) # SmColumns
        THEN None                                    \* ValueError, line 236
        ELSE LET kept == SelectSeq(target_table, LAMBDA r : Len(r.cells) = SmColumns)
             IN  [kind |-> "frame",
                  columns |-> SmSchema,
                  rows |-> [i \in 1..Len(kept) |->
                              [id |-> kept[i].id,
                               cells |-> [k \in 1..SmColumns |-> StripCommas(kept[i].cells[k])]]]]

\* lines 203-219: the rows from position i on
RECURSIVE SmScan(_, _, _, _)
SmScan(tables, i, start_appending, target_table) ==
    IF i > Len(tables) THEN SmFrame(target_table)
    ELSE IF tables[i] = <<>> THEN None               \* table[0] raises, line 236
    ELSE LET start == start_appending \/ IsMarker(tables[i])
         IN  IF ~start THEN SmScan(tables, i + 1, FALSE, target_table)
             ELSE LET kept == DropNone(tables[i])
                      clean_table == [k \in 1..Len(kept) |-> CollapseWs(kept[k])]
                      grown == Append(target_table, [id |-> i, cells |-> clean_table])
                  IN  IF IsStopRow(clean_table) THEN SmFrame(grown)
                      ELSE SmScan(tables, i + 1, TRUE, grown)

six_month_market_summary(tables) ==
    IF tables = NoTable THEN None                    \* iterating None raises, line 236
    ELSE SmScan(tables.rows, 1, FALSE, <<>>)

\* six_month_market_summary on its own: tables of up to MaxSmRows rows
Fill(first, rest, n) == [k \in 1..n |-> IF k = 1 THEN first ELSE rest]

SmRowKinds ==
    {Fill(S13, NoneCell, 7), Fill(S13, Amount, 7),
     Fill(Month, Amount, 7), Fill(Month, Amount, 6) \o <<NoneCell>>,
     Fill(S14, NoneCell, 7), Fill(S14Spaced, Amount, 7), Fill(S14Contd, Amount, 7),
     Fill(Month, Amount, 8), Fill(NoneCell, S13, 7)}

SmTables ==
    {Table(rows) : rows \in UNION {[1..n -> SmRowKinds] : n \in 0..MaxSmRows}}
    \cup {NoTable}

SixMonth ==
    /\ sm_result = Idle
    /\ sm_result' = six_month_market_summary(sm_table)
    /\ UNCHANGED <<sm_table, execVars, msVars, omtsVars, locVars, stVars, mvVars, evVars, cnVars, cdVars, ptVars>>

InitSixMonth ==
    /\ sm_table \in SmTables /\ sm_result = Idle
    /\ ExecIdle /\ MsIdle /\ OmtsIdle /\ LocIdle /\ StIdle /\ MvIdle /\ EvIdle /\ CnIdle /\ CdIdle /\ PtIdle

NextSixMonth == SixMonth

SpecSixMonth == InitSixMonth /\ [][NextSixMonth]_vars

-----------------------------------------------------------------------------
(* Properties of six_month_market_summary (SpecSixMonth)                   *)

\* positions of the rows whose first cell holds the section's own header
MarkerRows(table) ==
    {i \in 1..Len(table) : table[i] # <<>> /\ table[i][1] # NoneCell /\ table[i][1] = S13}

\* a row one of whose cells holds the Section 14 sentinel
HasSentinel(row) ==
    \E k \in 1..Len(row) : row[k] \in {S14, S14Spaced, S14Contd}

\* the last row of the span that starts at the marker row m
SentinelRow(table, m) ==
    LET hits == {i \in m..Len(table) : HasSentinel(table[i])}
    IN  IF hits = {} THEN Len(table) ELSE SetMin(hits)

NonNullCells(row) == Cardinality({k \in 1..Len(row) : row[k] # NoneCell})

ReturnedRows == {sm_result.rows[i].id : i \in 1..Len(sm_result.rows)}

\* C9 as stated: rows before the marker row are excluded, every row from the
\* marker row through the Section 14 sentinel row is in the returned table,
\* and the returned table has exactly 7 columns.
C9_SpanIncluded ==
    sm_result.kind = "frame" =>
        /\ \A i \in ReturnedRows :
              MarkerRows(sm_table.rows) # {} /\ i >= SetMin(MarkerRows(sm_table.rows))
        /\ MarkerRows(sm_table.rows) # {} =>
              LET m == SetMin(MarkerRows(sm_table.rows))
              IN  \A i \in m..SentinelRow(sm_table.rows, m) : i \in ReturnedRows
        /\ Len(sm_result.columns) = 7

\* C9 amended: rows before the marker row are excluded; a row from the
\* marker row through the Section 14 sentinel row is in the returned table
\* exactly when it has 7 non-null cells (dropna removes the shorter ones);
\* the returned table has exactly 7 columns.
C9_SpanIncludedIfFull ==
    sm_result.kind = "frame" =>
        /\ \A i \in ReturnedRows :
              MarkerRows(sm_table.rows) # {} /\ i >= SetMin(MarkerRows(sm_table.rows))
        /\ MarkerRows(sm_table.rows) # {} =>
              LET m == SetMin(MarkerRows(sm_table.rows))
              IN  \A i \in m..SentinelRow(sm_table.rows, m) :
                      i \in ReturnedRows <=> NonNullCells(sm_table.rows[i]) = 7
        /\ Len(sm_result.columns) = 7

\* C9 witness: a table with a full row before the marker row, a full marker
\* row and a one-cell sentinel row has been extracted; the marker row alone
\* is returned.
C9_Witness ==
    /\ sm_table = Table(<<Fill(Month, Amount, 7), Fill(S13, Amount, 7),
                          Fill(S14, NoneCell, 7)>>)
    /\ sm_result.kind = "frame"
    /\ Len(sm_result.rows) = 1

-----------------------------------------------------------------------------
(* PDFExtraction.extract_sector_table  (quotationextraction.py 140-187)    *)
(* A page is the sequence of tables extract_tables() gives for it, a table *)
(* a sequence of rows.  A row is named by what it holds: the header row    *)
(* (with or without a "Sector Name" column), a data row, or a row one of   *)
(* whose cells holds the Section 13 header.                                *)

HeaderRow   == "header"
NoNameRow   == "header without Sector Name"
DataRow     == "data"
SentinelRow13 == "SECTION 13 row"

\* lines 160-162: any(loop_ending_pattern in cell for cell in cleaned_row)
IsSentinel(row) == row = SentinelRow13

Origin(page, table, row) == [page |-> page, table |-> table, row |-> row]

\* lines 155-167: the rows of one page in scanning order, each with its place
RECURSIVE PageRows(_, _, _)
PageRows(tables, page, t) ==
    IF t > Len(tables) THEN <<>>
    ELSE [r \in 1..Len(tables[t]) |-> [at |-> Origin(page, t, r), row |-> tables[t][r]]]
         \o PageRows(tables, page, t + 1)

\* lines 155-167: data, the rows appended before the first sentinel row
RECURSIVE UpToSentinel(_)
UpToSentinel(rows) ==
    IF rows = <<>> \/ IsSentinel(Head(rows).row) THEN <<>>
    ELSE <<Head(rows)>> \o UpToSentinel(Tail(rows))

\* lines 168-180 for one page: None when a step raises
PageFrame(data) ==
    IF data = <<>> THEN None                         \* df.iloc[0] raises
    ELSE IF data[1].row # HeaderRow THEN None        \* df["Sector Name"] raises
    ELSE [kind |-> "frame", rows |-> [i \in 1..Len(data) - 1 |-> data[i + 1].at]]

\* lines 148-182: the pages from 0-based index page up to last.  stop is set
\* anew for each page (line 154): a sentinel ends the scan of its own page
\* and the loop over the pages goes on.
RECURSIVE SectorPages(_, _, _, _)
SectorPages(pages, page, last, final_df) ==
    IF page > last THEN [kind |-> "frame", rows |-> final_df]
    ELSE IF page + 1 > Len(pages) THEN None          \* pages[page] raises
    ELSE LET rows == PageRows(pages[page + 1], page, 1)
             data == UpToSentinel(rows)
             df == PageFrame(data)
         IN  IF df = None THEN None                  \* line 186
             ELSE SectorPages(pages, page + 1, last, final_df \o df.rows)

extract_sector_table(pages, targeted_pages_nums) ==
    IF Len(targeted_pages_nums) < 2 THEN None        \* targeted_pages_nums[1] raises
    ELSE SectorPages(pages, targeted_pages_nums[1] - 1, targeted_pages_nums[2] - 1, <<>>)

\* extract_sector_table on its own: a cover page and up to MaxStPages pages,
\* with every page list the locator can record for them
SectorPageKinds ==
    {<< <<HeaderRow, DataRow, DataRow>> >>,
     << <<HeaderRow, DataRow>>, <<DataRow>> >>,
     << <<HeaderRow, DataRow, SentinelRow13>> >>,
     << <<HeaderRow, DataRow, SentinelRow13, DataRow>> >>,
     << <<HeaderRow, SentinelRow13>>, <<DataRow>> >>,
     << <<SentinelRow13, HeaderRow, DataRow>> >>,
     << <<NoNameRow, DataRow>> >>,
     << >>}

SectorDocuments ==
    {<< << >> >> \o body : body \in UNION {[1..n -> SectorPageKinds] : n \in 1..MaxStPages}}

\* the strictly increasing lists of page numbers from 2 to n
RECURSIVE Ascending(_)
Ascending(S) ==
    IF S = {} THEN {<<>>}
    ELSE LET top == CHOOSE x \in S : \A y \in S : y <= x
             below == Ascending(S \ {top})
         IN  below \cup {Append(l, top) : l \in below}

PageLists(n) == Ascending(2..n) \ {<<>>}

Sector ==
    /\ st_result = Idle
    /\ st_result' = extract_sector_table(st_pages, st_nums)
    /\ UNCHANGED <<st_pages, st_nums, execVars, msVars, omtsVars, locVars, smVars, mvVars, evVars, cnVars, cdVars, ptVars>>

InitSector ==
    /\ st_pages \in SectorDocuments
    /\ st_nums \in PageLists(Len(st_pages))
    /\ st_result = Idle
    /\ ExecIdle /\ MsIdle /\ OmtsIdle /\ LocIdle /\ SmIdle /\ MvIdle /\ EvIdle /\ CnIdle /\ CdIdle /\ PtIdle

NextSector == Sector

SpecSector == InitSector /\ [][NextSector]_vars

-----------------------------------------------------------------------------
(* Properties of extract_sector_table (SpecSector)                         *)

\* the places of the sentinel rows on the pages of the range
SentinelPlaces ==
    UNION {UNION {{Origin(p - 1, t, r) :
                      r \in {k \in 1..Len(st_pages[p][t]) : IsSentinel(st_pages[p][t][k])}} :
                  t \in 1..Len(st_pages[p])} :
           p \in {q \in st_nums[1]..st_nums[2] : q <= Len(st_pages)}}

\* place a comes after place b in scanning order
After(a, b) ==
    \/ a.page > b.page
    \/ a.page = b.page /\ a.table > b.table
    \/ a.page = b.page /\ a.table = b.table /\ a.row > b.row

\* C10: sector-table early stop.  Once a sentinel row is met on a page of
\* the range, no row after it, on that page or on a later page of the
\* range, contributes to the output.
C10_StopsWholeRange ==
    st_result.kind = "frame" =>
        \A i \in 1..Len(st_result.rows) : \A s \in SentinelPlaces :
            ~After(st_result.rows[i], s)

-----------------------------------------------------------------------------
(* PDFExtraction.extract_macro_view  (quotationextraction.py 73-102)       *)
(* The arguments are the CreationDate entry of the document's metadata and *)
(* the table extract_table() gives for pages[targeted_pages_nums[0] - 1].  *)
(* A frame is [index, columns, rows]: its row labels, its column labels    *)
(* and, row by row, its cells.  None stands for "logged, nothing returned".*)

\* line 75
loop_ending_pattern == "PUBLICLY ISSUED DEBT SECURITIES"

\* the cells of the model
DebtHeading  == "SECTION 2: PUBLICLY ISSUED DEBT SECURITIES"
Companies    == "Listed Companies"
Capital      == "Listed Capital"
Turnover     == "Turnover"
Trades       == "Trades"
DateLabel    == "Date"

\* line 89
MvColumns == <<"Market", "Main Board", "Details", "GEM Board">>

\* line 77: metadata.get("CreationDate"); NoneCell when the key is absent
CreationDates ==
    {"D:20240102093000+05'00'", "20240102093000", "D:2024-01-02", NoneCell}

\* line 78: creation_date_string[2:10]
Slice2To10(creation_date_string) ==
    CASE creation_date_string = "D:20240102093000+05'00'" -> "20240102"
      [] creation_date_string = "20240102093000"          -> "24010209"
      [] creation_date_string = "D:2024-01-02"            -> "2024-01-"

\* line 78: datetime.strptime(..., "%Y%m%d").date()
Strptime(text) ==
    CASE text = "20240102" -> [kind |-> "date", iso |-> "2024-01-02"]
      [] text = "24010209" -> [kind |-> "date", iso |-> "2401-02-09"]
      [] OTHER             -> Raised("ValueError")

CreationDate(creation_date_string) ==
    IF creation_date_string = NoneCell THEN Raised("TypeError")  \* None[2:10]
    ELSE Strptime(Slice2To10(creation_date_string))

\* line 83: any(loop_ending_pattern in cell for cell in table)
MvStops(table) ==
    \E k \in 1..Len(table) : table[k] \in {loop_ending_pattern, DebtHeading}

\* lines 81-85: all_rows, the rows before the first sentinel row
RECURSIVE MvScan(_, _)
MvScan(extracted_table, i) ==
    IF i > Len(extracted_table) THEN <<>>
    ELSE LET table == DropNone(extracted_table[i])
         IN  IF MvStops(table) THEN <<>>
             ELSE <<table>> \o MvScan(extracted_table, i + 1)

\* lines 86-89: DataFrame(all_rows), replace, dropna, the four column names.
\* Short rows are padded with None and dropped; the names fit 4 columns only.
MvFrame(all_rows) ==
    LET widths == [i \in 1..Len(all_rows) |-> Len(all_rows[i])]
        kept == SelectSeq(all_rows, LAMBDA r : Len(r) = Len(MvColumns))
    IN  IF SeqMax(widths) # Len(MvColumns) THEN None             \* ValueError, line 89
        ELSE [kind |-> "frame",
              index |-> Positions(Len(kept)),
              columns |-> MvColumns,
              rows |-> [i \in 1..Len(kept) |->
                          [k \in 1..Len(MvColumns) |-> StripCommas(kept[i][k])]]]

\* line 90: df.T
Transpose(df) ==
    [kind |-> "frame",
     index |-> df.columns,
     columns |-> df.index,
     rows |-> [k \in 1..Len(df.columns) |-> [i \in 1..Len(df.rows) |-> df.rows[i][k]]]]

\* the frame with the rows at the positions of keep
KeepRows(df, keep) ==
    [df EXCEPT !.index = [i \in 1..Len(keep) |-> df.index[keep[i]]],
               !.rows  = [i \in 1..Len(keep) |-> df.rows[keep[i]]]]

\* drop() that drops nothing
DropRow_Nothing(df, label) == df

\* lines 91, 94: df.drop(label, axis=0)
DropRow(df, label) ==
    KeepRows(df, SelectSeq(Positions(Len(df.index)), LAMBDA i : df.index[i] # label))

\* line 93: df.columns = df.iloc[0]
PromoteFirstRow(df) == [df EXCEPT !.columns = df.rows[1]]

\* s with e put at 0-based position loc
InsertAt(s, loc, e) == SubSeq(s, 1, loc) \o <<e>> \o SubSeq(s, loc + 1, Len(s))

\* lines 95, 97: df.insert(loc, column, value); an existing name is refused
Insert(df, loc, column, value) ==
    IF df = None \/ (\E k \in 1..Len(df.columns) : df.columns[k] = column)
    THEN None                                        \* ValueError
    ELSE [df EXCEPT !.columns = InsertAt(@, loc, column),
                    !.rows = [i \in 1..Len(@) |-> InsertAt(@[i], loc, value)]]

\* line 96: df.reset_index(inplace=True)
ResetIndex(df) ==
    LET with == Insert(df, 0, "index", "")
    IN  IF with = None THEN None
        ELSE [with EXCEPT !.index = Positions(Len(df.index)),
                          !.rows = [i \in 1..Len(@) |-> [@[i] EXCEPT ![1] = df.index[i]]]]

extract_macro_view(creation_date_string, extracted_table) ==
    LET creation_date == CreationDate(creation_date_string)
    IN  IF creation_date.kind = "raised" THEN None               \* line 101
        ELSE IF extracted_table = NoTable THEN None              \* iterating None
        ELSE LET df == MvFrame(MvScan(extracted_table.rows, 1))
             IN  IF df = None THEN None
                 ELSE LET transposed == DropRow(Transpose(df), "Details")
                          promoted == DropRow(PromoteFirstRow(transposed), transposed.index[1])
                          dated == Insert(promoted, 0, "Date", creation_date.iso)
                      IN  Insert(ResetIndex(dated), 1, "c_ex_id", "1")

\* extract_macro_view on its own: tables of up to MaxMvRows rows
MvRowKinds ==
    {<<Companies, Amount, Trades, Plain>>,
     <<Capital, Plain, Turnover, Amount>>,
     <<DateLabel, Plain, Trades, Plain>>,
     <<Turnover, NoneCell, Trades, Amount>>,
     <<loop_ending_pattern, NoneCell, NoneCell, NoneCell>>,
     <<Capital, Amount, DebtHeading, Amount>>}

MvTables ==
    {Table(rows) : rows \in UNION {[1..n -> MvRowKinds] : n \in 0..MaxMvRows}}
    \cup {Table(<<Fill(Companies, Amount, 5)>>), NoTable}

MacroView ==
    /\ mv_result = Idle
    /\ mv_result' = extract_macro_view(mv_meta, mv_table)
    /\ UNCHANGED <<mv_table, mv_meta, execVars, msVars, omtsVars, locVars, smVars, stVars, evVars, cnVars, cdVars, ptVars>>

InitMacro ==
    /\ mv_table \in MvTables /\ mv_meta \in CreationDates /\ mv_result = Idle
    /\ ExecIdle /\ MsIdle /\ OmtsIdle /\ LocIdle /\ SmIdle /\ StIdle /\ EvIdle /\ CnIdle /\ CdIdle /\ PtIdle

NextMacro == MacroView

SpecMacro == InitMacro /\ [][NextMacro]_vars

-----------------------------------------------------------------------------
(* Properties of extract_macro_view (SpecMacro)                            *)

\* a 4-column page of rows without a null cell, followed by one row that
\* holds the sentinel
MvClaimPage ==
    /\ mv_table.kind = "table"
    /\ Len(mv_table.rows) >= 1
    /\ LET n == Len(mv_table.rows) - 1
       IN  /\ MvStops(mv_table.rows[n + 1])
           /\ \A i \in 1..n : /\ Len(mv_table.rows[i]) = 4
                              /\ NonNullCells(mv_table.rows[i]) = 4
                              /\ ~MvStops(mv_table.rows[i])

\* the first cells of the rows before the sentinel row, as the frame holds them
MvHeaders == [i \in 1..(Len(mv_table.rows) - 1) |-> StripCommas(mv_table.rows[i][1])]

-----------------------------------------------------------------------------
(* Properties of the page lists of extract_page_numbers (SpecLocator)      *)

\* the 1-based numbers of the scanned pages (the second page onward) whose
\* text holds header h
ScannedWith(h) == {p \in 2..Len(pdf_pages) : h \in pdf_pages[p].headers}

\* C12: SectionIndex invariant.  After the locator has run, the page list
\* recorded for every section is strictly increasing, and a section whose
\* header matched on no scanned page has no pages recorded: it has no entry,
\* and no entry holds an empty list.
C12_SectionIndex ==
    target_page_nums_dict.kind = "dict" =>
        LET nums == target_page_nums_dict.pages
        IN  /\ \A h \in DOMAIN nums : \A i, j \in 1..Len(nums[h]) :
                  i < j => nums[h][i] < nums[h][j]
            /\ \A h \in Elems(target_table_pattern) :
                  ScannedWith(h) = {} => h \notin DOMAIN nums
            /\ \A h \in DOMAIN nums : nums[h] # <<>>

\* C12 witness: a header found on two scanned pages has a two-page list and
\* a header found on no page has no entry.
C12_Witness ==
    /\ target_page_nums_dict.kind = "dict"
    /\ Len(pdf_pages) = 3
    /\ ScannedWith(S5) = {2, 3}
    /\ target_page_nums_dict.pages[S5] = <<2, 3>>
    /\ \A p \in 1..3 : S12 \notin pdf_pages[p].headers
    /\ S12 \notin DOMAIN target_page_nums_dict.pages

\* the headers the text of the first page holds
CoverHeaders == IF pdf_pages = <<>> THEN {} ELSE pdf_pages[1].headers

\* C13: the locator skips the cover page.  The first page is never scanned:
\* a header that occurs on page 1 only has no entry, no list holds page
\* number 1, every list has one number per later page holding the header,
\* and a cover page without text does not stop the scan.
C13_CoverPageSkipped ==
    /\ target_page_nums_dict.kind = "dict" =>
          LET nums == target_page_nums_dict.pages
          IN  /\ \A h \in CoverHeaders :
                    ScannedWith(h) = {} => h \notin DOMAIN nums
              /\ \A h \in DOMAIN nums :
                    /\ 1 \notin Elems(nums[h])
                    /\ Elems(nums[h]) = ScannedWith(h)
                    /\ Len(nums[h]) = Cardinality(ScannedWith(h))
    /\ (target_page_nums_dict # Idle /\ pdf_pages # <<>>
           /\ \A p \in 2..Len(pdf_pages) : pdf_pages[p].ok)
          => target_page_nums_dict.kind = "dict"

\* C13 witness: a document whose cover page alone holds the Section 1
\* header, and whose second page holds another, has been scanned.
C13_Witness ==
    /\ target_page_nums_dict.kind = "dict"
    /\ Len(pdf_pages) >= 2
    /\ S1 \in pdf_pages[1].headers
    /\ ScannedWith(S1) = {}
    /\ S5 \in pdf_pages[2].headers
    /\ DOMAIN target_page_nums_dict.pages = {S5}

-----------------------------------------------------------------------------
(* PDFExtraction.extract_event_table  (quotationextraction.py 104-138)     *)
(* A document is its pages; a page is the table extract_table() gives for  *)
(* it (rectangular, absent cells as None), or NoTable.  A returned frame   *)
(* is [columns, rows, logged]: rows carry the place they come from, and    *)
(* logged tells that line 137 ran and the empty frame of line 138 is       *)
(* returned.                                                               *)

\* the rows of the model
EvHeader   == <<"S.No", "Date", "Time", "Company">>
EvNoDate   == <<"S.No", "Held On", "Time", "Company">>
EvFirst    == <<"1", "02-JAN-24", "10:00", "ABC">>
EvSecond   == <<"2", "03-JAN-24", "11:30", "XYZ">>
EvUndated  == <<"3", "TBA", "11:30", "XYZ">>
EvPartial  == <<"4", "03-JAN-24", NoneCell, "ABC">>

Place(page, row) == [page |-> page, row |-> row]

\* line 137-138: pd.DataFrame() after the error is logged
EmptyLogged == [kind |-> "frame", columns |-> <<>>, rows |-> <<>>, logged |-> TRUE]

HasColumn(df, name) == \E k \in 1..Len(df.columns) : df.columns[k] = name

ColumnAt(df, name) == CHOOSE k \in 1..Len(df.columns) : df.columns[k] = name

\* lines 109-113 and 127-131: DataFrame(extract_table()), dropna, first row
\* to headers, iloc[:, 1:].  page is the 1-based number of the page.
EvPageFrame(extracted_table, page) ==
    LET rows == IF extracted_table = NoTable THEN <<>>           \* DataFrame(None) is empty
                ELSE [r \in 1..Len(extracted_table.rows) |->
                         [at |-> Place(page, r), cells |-> extracted_table.rows[r]]]
        kept == SelectSeq(rows, LAMBDA row :
                              \A k \in 1..Len(row.cells) : row.cells[k] # NoneCell)
    IN  IF kept = <<>> THEN None                                 \* iloc[0], IndexError
        ELSE [kind |-> "frame",
              columns |-> Tail(kept[1].cells),
              rows |-> [i \in 1..(Len(kept) - 1) |->
                          [at |-> kept[i + 1].at, cells |-> Tail(kept[i + 1].cells)]],
              logged |-> FALSE]

\* line 117: pd.to_datetime of date + ' ' + time; NoneCell when it cannot be parsed
ToDatetime(date, time) ==
    LET day == CASE date = "02-JAN-24" -> "2024-01-02"
                 [] date = "03-JAN-24" -> "2024-01-03"
                 [] OTHER -> NoneCell
    IN  CASE day = "2024-01-02" /\ time = "10:00" -> "2024-01-02 10:00:00"
          [] day = "2024-01-02" /\ time = "11:30" -> "2024-01-02 11:30:00"
          [] day = "2024-01-03" /\ time = "10:00" -> "2024-01-03 10:00:00"
          [] day = "2024-01-03" /\ time = "11:30" -> "2024-01-03 11:30:00"
          [] OTHER -> NoneCell

\* line 116: df['Datetime'] = ...
AddColumn(df, name, values) ==
    [df EXCEPT !.columns = Append(@, name),
               !.rows = [i \in 1..Len(@) |-> [@[i] EXCEPT !.cells = Append(@, values[i])]]]

\* the frame with no column dropped
DropColumns_Nothing(df, names) == df

\* line 118: df.drop(columns=[...])
DropColumns(df, names) ==
    LET keep == SelectSeq(Positions(Len(df.columns)), LAMBDA k : df.columns[k] \notin names)
    IN  [df EXCEPT !.columns = [k \in 1..Len(keep) |-> df.columns[keep[k]]],
                   !.rows = [i \in 1..Len(@) |->
                               [@[i] EXCEPT !.cells = [k \in 1..Len(keep) |-> @[keep[k]]]]]]

\* lines 108-118
EvSinglePage(pages, targeted_pages_nums) ==
    LET df == EvPageFrame(pages[targeted_pages_nums[1]], targeted_pages_nums[1])
    IN  IF df = None THEN EmptyLogged
        ELSE IF ~HasColumn(df, "Date") \/ ~HasColumn(df, "Time")
        THEN EmptyLogged                                         \* KeyError, lines 114-115
        ELSE LET date_col == ColumnAt(df, "Date")
                 time_col == ColumnAt(df, "Time")
                 stamps == [i \in 1..Len(df.rows) |->
                              ToDatetime(df.rows[i].cells[date_col], df.rows[i].cells[time_col])]
             IN  IF \E i \in 1..Len(stamps) : stamps[i] = NoneCell
                 THEN EmptyLogged                                \* line 117 raises
                 ELSE DropColumns(AddColumn(df, "Datetime", stamps), {"Date", "Time"})

\* line 132: pd.concat([df, table], axis=0), columns united in order of appearance
Concat(df, table) ==
    LET extra == SelectSeq(table.columns, LAMBDA c : ~HasColumn(df, c))
        columns == df.columns \o extra
        Align(from, row) ==
            [row EXCEPT !.cells = [k \in 1..Len(columns) |->
                                      IF HasColumn(from, columns[k])
                                      THEN row.cells[ColumnAt(from, columns[k])]
                                      ELSE NoneCell]]
    IN  [kind |-> "frame",
         columns |-> columns,
         rows |-> [i \in 1..Len(df.rows) |-> Align(df, df.rows[i])]
                  \o [i \in 1..Len(table.rows) |-> Align(table, table.rows[i])],
         logged |-> FALSE]

\* lines 122-132: range(targeted_pages_nums[0] - 1, targeted_pages_nums[1]),
\* page being the 0-based index
RECURSIVE EvPageRange(_, _, _, _)
EvPageRange(pages, page, stop, df) ==
    IF page >= stop THEN df
    ELSE LET table == EvPageFrame(pages[page + 1], page + 1)
         IN  IF table = None THEN EmptyLogged
             ELSE EvPageRange(pages, page + 1, stop, Concat(df, table))

extract_event_table(pages, targeted_pages_nums) ==
    IF Len(targeted_pages_nums) = 1 THEN EvSinglePage(pages, targeted_pages_nums)
    ELSE EvPageRange(pages, targeted_pages_nums[1] - 1, targeted_pages_nums[2],
                     [kind |-> "frame", columns |-> <<>>, rows |-> <<>>, logged |-> FALSE])

\* extract_event_table on its own: a cover page and up to MaxEvPages pages,
\* with every page list the locator can record for them
EvPageKinds ==
    {Table(<<EvHeader, EvFirst, EvSecond>>),
     Table(<<EvHeader, EvPartial, EvSecond>>),
     Table(<<EvHeader, EvUndated>>),
     Table(<<EvFirst, EvSecond>>),
     Table(<<EvNoDate, EvFirst>>),
     Table(<<EvHeader>>),
     Table(<<EvPartial>>),
     NoTable}

EvDocuments ==
    {<<NoTable>> \o body : body \in UNION {[1..n -> EvPageKinds] : n \in 1..MaxEvPages}}

EventTable ==
    /\ ev_result = Idle
    /\ ev_result' = extract_event_table(ev_pages, ev_nums)
    /\ UNCHANGED <<ev_pages, ev_nums, execVars, msVars, omtsVars, locVars, smVars, stVars, mvVars, cnVars, cdVars, ptVars>>

InitEvent ==
    /\ ev_pages \in EvDocuments
    /\ ev_nums \in PageLists(Len(ev_pages))
    /\ ev_result = Idle
    /\ ExecIdle /\ MsIdle /\ OmtsIdle /\ LocIdle /\ SmIdle /\ StIdle /\ MvIdle /\ CnIdle /\ CdIdle /\ PtIdle

NextEvent == EventTable

SpecEvent == InitEvent /\ [][NextEvent]_vars

-----------------------------------------------------------------------------
(* Properties of extract_event_table (SpecEvent)                           *)

\* the rows of page p (1-based) that hold no null cell, by position
EvFullRows(p) ==
    IF ev_pages[p] = NoTable THEN <<>>
    ELSE SelectSeq(Positions(Len(ev_pages[p].rows)),
                   LAMBDA r : NonNullCells(ev_pages[p].rows[r]) = Len(ev_pages[p].rows[r]))

\* the places of the data rows of page p: its full rows after the first
EvDataPlaces(p) ==
    IF EvFullRows(p) = <<>> THEN <<>>
    ELSE [i \in 1..(Len(EvFullRows(p)) - 1) |-> Place(p, EvFullRows(p)[i + 1])]

\* the data rows of the pages p..last, page after page
RECURSIVE EvPlacesFrom(_, _)
EvPlacesFrom(p, last) ==
    IF p > last THEN <<>> ELSE EvDataPlaces(p) \o EvPlacesFrom(p + 1, last)

\* the cell the page of a returned row holds for it under the header name
EvSourceCell(at, name) ==
    LET header == ev_pages[at.page].rows[EvFullRows(at.page)[1]]
    IN  ev_pages[at.page].rows[at.row][CHOOSE k \in 1..Len(header) : header[k] = name]

EvPageHas(p, name) ==
    /\ EvFullRows(p) # <<>>
    /\ \E k \in 2..Len(EvHeader) : ev_pages[p].rows[EvFullRows(p)[1]][k] = name

EvReturnedPlaces == [i \in 1..Len(ev_result.rows) |-> ev_result.rows[i].at]

\* C14: event-table asymmetry, for an extraction in which no step raises.
\* With a page list of exactly one page the returned table holds the data
\* rows of that page, has a Datetime column fused from each row's Date and
\* Time, and has no Date or Time column.  With a page list of more than one
\* page the returned table is the data rows of the pages of the range (first
\* to second entry of the list) concatenated in page order, keeps the Date
\* and Time cells of those rows in separate columns, and has no Datetime
\* column.
C14_Asymmetry ==
    (ev_result # Idle /\ ~ev_result.logged) =>
        IF Len(ev_nums) = 1
        THEN /\ HasColumn(ev_result, "Datetime")
             /\ ~HasColumn(ev_result, "Date")
             /\ ~HasColumn(ev_result, "Time")
             /\ EvReturnedPlaces = EvDataPlaces(ev_nums[1])
             /\ \A i \in 1..Len(ev_result.rows) :
                   ev_result.rows[i].cells[ColumnAt(ev_result, "Datetime")]
                       = ToDatetime(EvSourceCell(ev_result.rows[i].at, "Date"),
                                    EvSourceCell(ev_result.rows[i].at, "Time"))
        ELSE /\ ~HasColumn(ev_result, "Datetime")
             /\ EvReturnedPlaces = EvPlacesFrom(ev_nums[1], ev_nums[2])
             /\ \A name \in {"Date", "Time"} : \A p \in ev_nums[1]..ev_nums[2] :
                   EvPageHas(p, name) =>
                       /\ HasColumn(ev_result, name)
                       /\ \A i \in 1..Len(ev_result.rows) :
                             ev_result.rows[i].at.page = p =>
                                 ev_result.rows[i].cells[ColumnAt(ev_result, name)]
                                     = EvSourceCell(ev_result.rows[i].at, name)

\* C14 witness: two pages, each with a header row and data rows, have been
\* extracted from a two-page list into one table of three rows that still
\* has the Date and Time columns.
C14_Witness ==
    /\ ev_pages = <<NoTable, Table(<<EvHeader, EvFirst, EvSecond>>),
                    Table(<<EvHeader, EvPartial, EvSecond>>)>>
    /\ ev_nums = <<2, 3>>
    /\ ev_result # Idle /\ ~ev_result.logged
    /\ Len(ev_result.rows) = 3
    /\ ev_result.columns = <<"Date", "Time", "Company">>

\* the one-page case of C14: a page with a header row and two data rows has
\* been extracted into two rows with a Datetime column
EvSinglePageCase ==
    /\ ev_nums = <<2>>
    /\ ev_pages[2] = Table(<<EvHeader, EvFirst, EvSecond>>)
    /\ ev_result # Idle /\ ~ev_result.logged
    /\ Len(ev_result.rows) = 2
    /\ ev_result.columns = <<"Company", "Datetime">>

-----------------------------------------------------------------------------
(* Routing of the dispatcher (Spec)                                        *)

\* the parsers the routing rule names for the file at position f of the folder
ParsersFor(f) ==
    LET ext == Lower(directory[f].suffix)
    IN  CASE ext = ".z"   -> {"read_zip_file", "get_market_summary"}
          [] ext = ".csv" -> {"get_omts"}
          [] ext = ".xls" -> IF directory[f].stem = "fut_opn_int"
                             THEN {"get_open_interest"} ELSE {"get_indhist"}
          [] ext = ".pdf" -> {"get_quotes"}
          [] OTHER        -> {}

CalledOn(f) == {routed[c].parser : c \in {k \in 1..Len(routed) : routed[k].file = f}}

\* no file is handed to a parser of another format, and a file of another
\* extension is handed to none and has no entry
C15_NoForeignParser ==
    /\ \A c \in 1..Len(routed) : routed[c].parser \in ParsersFor(routed[c].file)
    /\ \A i \in 1..Len(df_list) : ParsersFor(df_list[i].src) # {}

\* C15: dispatcher routing.  Every file is routed by its lower-cased
\* extension and its stem: an archive to the archive extraction and then the
\* market-summary split, a .csv to the composite CSV split, a spreadsheet to
\* the open-interest parser when its stem starts with fut_opn_int and to the
\* index-weight parser otherwise, a .pdf to the PDF extraction; no file is
\* handed to a parser of another format and a file of another extension
\* produces no entry.
C15_Routing ==
    /\ C15_NoForeignParser
    /\ pc = "done" => \A f \in 1..Len(directory) : CalledOn(f) = ParsersFor(f)

-----------------------------------------------------------------------------
(* FIPIDataProcessor.clean_numeric_re                                      *)
(* (utils/fipi_lipi_preprocessor_v2.py 90-103, the same text as            *)
(*  utils/fipi_lipi_processor.py 72-85)                                    *)
(* A string is its characters in order.  A float is [neg, ip, fp]: its     *)
(* sign, the digits of its integer part without leading zeros and the      *)
(* digits of its fraction without trailing zeros, so that two floats are   *)
(* equal exactly when the records are.                                     *)

NaN == [kind |-> "NaN"]

Text(chars) == [kind |-> "str", chars |-> chars]

Float(neg, ip, fp) == [kind |-> "float", neg |-> neg, ip |-> ip, fp |-> fp]

DigitChars == <<"0", "1", "2", "3", "4", "5", "6", "7", "8", "9">>

\* \d
IsDigit(c) == \E d \in 1..Len(DigitChars) : DigitChars[d] = c

RECURSIVE StripLeadingZeros(_)
StripLeadingZeros(digits) ==
    IF digits # <<>> /\ Head(digits) = "0" THEN StripLeadingZeros(Tail(digits)) ELSE digits

RECURSIVE StripTrailingZeros(_)
StripTrailingZeros(digits) ==
    IF digits # <<>> /\ digits[Len(digits)] = "0"
    THEN StripTrailingZeros(SubSeq(digits, 1, Len(digits) - 1)) ELSE digits

\* line 94: pd.isna(value)
IsNa(value) == value \in {None, NaN}

\* the substitution that leaves the parentheses in place
ParenToMinus_Keep(chars) == chars

\* line 97: re.sub(r'\((.*?)\)', r'-\1', ...): each "(" with a ")" after it
\* on the same line becomes "-", and that ")" goes
RECURSIVE ParenToMinus(_)
ParenToMinus(chars) ==
    IF chars = <<>> THEN <<>>
    ELSE LET closing == {j \in 2..Len(chars) : chars[j] = ")"}
             j == SetMin(closing)
         IN  IF Head(chars) = "(" /\ closing # {}
                /\ \A k \in 2..(j - 1) : chars[k] # "\n"
             THEN <<"-">> \o SubSeq(chars, 2, j - 1)
                  \o ParenToMinus(SubSeq(chars, j + 1, Len(chars)))
             ELSE <<Head(chars)>> \o ParenToMinus(Tail(chars))

\* line 99: re.sub(r'[^\d.-]', '', value)
KeepNumeric(chars) == SelectSeq(chars, LAMBDA c : IsDigit(c) \/ c = "." \/ c = "-")

\* lines 100-103: float(value) of a string of digits, "." and "-";
\* None where float() raises ValueError
FloatOf(chars) ==
    LET neg == chars # <<>> /\ Head(chars) = "-"
        body == IF neg THEN Tail(chars) ELSE chars
        dots == {k \in 1..Len(body) : body[k] = "."}
        dot == IF dots = {} THEN Len(body) + 1 ELSE SetMin(dots)
    IN  IF \/ \E k \in 1..Len(body) : body[k] = "-"
           \/ Cardinality(dots) > 1
           \/ Len(body) = Cardinality(dots)
        THEN None
        ELSE Float(neg, StripLeadingZeros(SubSeq(body, 1, dot - 1)),
                        StripTrailingZeros(SubSeq(body, dot + 1, Len(body))))

\* the decimal exponent of a float that is not zero
Exponent(x) ==
    IF x.ip # <<>> THEN Len(x.ip) - 1
    ELSE Len(StripLeadingZeros(x.fp)) - Len(x.fp) - 1

\* the two or more digits of an exponent
ExponentDigits(n) ==
    IF n < 10 THEN <<"0", DigitChars[n + 1]>>
    ELSE <<DigitChars[(n \div 10) + 1], DigitChars[(n % 10) + 1]>>

\* line 97: str(value) of a float, as float.__repr__ writes it: positional
\* for exponents -4..15, with an "e" otherwise
Repr(x) ==
    LET sign == IF x.neg THEN <<"-">> ELSE <<>>
        zero == x.ip = <<>> /\ x.fp = <<>>
        orZero(digits) == IF digits = <<>> THEN <<"0">> ELSE digits
        sig == StripTrailingZeros(StripLeadingZeros(x.ip \o x.fp))
    IN  IF zero \/ (Exponent(x) >= -4 /\ Exponent(x) < 16)
        THEN sign \o orZero(x.ip) \o <<".">> \o orZero(x.fp)
        ELSE sign \o <<Head(sig)>>
             \o (IF Len(sig) > 1 THEN <<".">> \o Tail(sig) ELSE <<>>)
             \o <<"e">>
             \o (IF Exponent(x) < 0 THEN <<"-">> \o ExponentDigits(0 - Exponent(x))
                 ELSE <<"+">> \o ExponentDigits(Exponent(x)))

\* line 97: str(value)
Str(value) == IF value.kind = "str" THEN value.chars ELSE Repr(value)

clean_numeric_re(value) ==
    IF IsNa(value) THEN None                                     \* lines 94-95
    ELSE FloatOf(KeepNumeric(ParenToMinus(Str(value))))

\* clean_numeric_re on its own: the null values, every string of up to
\* MaxChars characters of CellChars, and the cells named in the requirements
CellChars == {"0", "1", ",", ".", "-", "(", ")", "a"}

Strings(n) == UNION {[1..k -> CellChars] : k \in 0..n}

Wrapped1234 == <<"(", "1", ",", "2", "3", "4", ".", "5", ")">>

CnValues ==
    {None, NaN} \cup {Text(chars) : chars \in Strings(MaxChars)}
    \cup {Text(Wrapped1234), Text(<<"a", "b", "c">>), Text(<<"(", "-", "5", ")">>)}

CleanNumeric ==
    /\ cn_result = Idle
    /\ cn_result' = clean_numeric_re(cn_value)
    /\ UNCHANGED <<cn_value, execVars, msVars, omtsVars, locVars, smVars, stVars, mvVars,
                   evVars, cdVars, ptVars>>

InitNumeric ==
    /\ cn_value \in CnValues /\ cn_result = Idle
    /\ ExecIdle /\ MsIdle /\ OmtsIdle /\ LocIdle /\ SmIdle /\ StIdle /\ MvIdle /\ EvIdle /\ PtIdle
    /\ CdIdle

NextNumeric == CleanNumeric

SpecNumeric == InitNumeric /\ [][NextNumeric]_vars

-----------------------------------------------------------------------------
(* Properties of clean_numeric_re (SpecNumeric)                            *)

\* the negation of a cleaned value
Negated(x) == IF x = None THEN None ELSE [x EXCEPT !.neg = ~@]

\* the string without the characters that are neither digits, "-", "." nor
\* parentheses
Purged(chars) ==
    SelectSeq(chars, LAMBDA c : IsDigit(c) \/ c \in {"-", ".", "(", ")"})

\* chars is "(" X ")" for an X without parentheses and without a sign
WrapsUnsigned(chars) ==
    /\ Len(chars) >= 2
    /\ chars[1] = "(" /\ chars[Len(chars)] = ")"
    /\ \A k \in 2..(Len(chars) - 1) : chars[k] \notin {"(", ")", "-"}

-----------------------------------------------------------------------------
(* FIPIDataProcessor.clean_dataframe                                       *)
(* (utils/fipi_lipi_preprocessor_v2.py 105-150)                            *)
(* A frame is [columns, rows]: its column names in order and its rows,     *)
(* each a function from column name to cell.  A text cell that is not      *)
(* cleaned is a Word.                                                      *)

Word(w) == [kind |-> "word", w |-> w]

IntCell(n) == [kind |-> "int", n |-> n]

\* line 139
cols_to_convert == <<"BUY VOLUME", "BUY VALUE", "SELL VOLUME", "SELL VALUE",
                     "NET VOLUME", "NET VALUE", "USD">>

\* the columns lines 124-143 read
ReadColumns == <<"SEC CODE", "SECTOR NAME", "CLIENT TYPE", "MARKET TYPE">> \o cols_to_convert

\* lines 111-116
extract_market_type_name(market_type) ==
    IF market_type.kind # "word" THEN None
    ELSE IF market_type.w \in {"FUTURE CONTRACT-JAN", "FUTURE CONTRACT-XYZ"}
    THEN Word("FUTURE CONTRACT")
    ELSE market_type

\* lines 76-87, then line 134: fillna(0).astype(int)
extract_future_contract_month(market_type) ==
    IF market_type.kind = "word" /\ market_type.w = "FUTURE CONTRACT-JAN"
    THEN IntCell(1) ELSE IntCell(0)

CdFrame(columns, rows) == [kind |-> "frame", columns |-> columns, rows |-> rows]

\* df[name] = values, one per row; a new name is added as the last column
Assign(df, name, values) ==
    CdFrame(IF HasColumn(df, name) THEN df.columns ELSE Append(df.columns, name),
            [i \in 1..Len(df.rows) |->
                [c \in DOMAIN df.rows[i] \cup {name} |->
                    IF c = name THEN values[i] ELSE df.rows[i][c]]])

\* Series.apply and broadcasting: one value per row of the frame
PerRow(df, value) == [i \in 1..Len(df.rows) |-> value]

\* lines 142-143, the columns from position k on
RECURSIVE ConvertColumns(_, _)
ConvertColumns(df, k) ==
    IF k > Len(cols_to_convert) THEN df
    ELSE LET col == cols_to_convert[k]
             cleaned == [i \in 1..Len(df.rows) |-> clean_numeric_re(df.rows[i][col])]
         IN  ConvertColumns(Assign(df, col, cleaned), k + 1)

\* line 146: df_clean.insert(0, 'Date', date_fipi)
InsertDate(df, date_fipi) ==
    IF HasColumn(df, "Date") THEN Raised("ValueError")           \* already exists
    ELSE CdFrame(<<"Date">> \o df.columns, Assign(df, "Date", PerRow(df, date_fipi)).rows)

clean_dataframe(df, date_fipi) ==
    IF \E k \in 1..Len(ReadColumns) : ~HasColumn(df, ReadColumns[k])
    THEN Raised("KeyError")                                      \* lines 124-143
    ELSE LET named == SelectSeq(df.rows, LAMBDA row :
                          ~IsNa(row["SEC CODE"]) /\ ~IsNa(row["SECTOR NAME"]))   \* line 124
             kept == SelectSeq(named, LAMBDA row : row["CLIENT TYPE"] # Word(" "))   \* line 126
             market_type_name ==
                 [i \in 1..Len(kept) |-> extract_market_type_name(kept[i]["MARKET TYPE"])]
             contract_month ==
                 [i \in 1..Len(kept) |-> extract_future_contract_month(kept[i]["MARKET TYPE"])]
             typed == Assign(Assign(CdFrame(df.columns, kept),
                                    "market_type_name", market_type_name),
                             "FUTURE_CONTRACT_MONTH", contract_month)
             dated == InsertDate(ConvertColumns(typed, 1), date_fipi)
         IN  IF dated.kind = "raised" THEN dated
             ELSE Assign(Assign(dated, "Year", PerRow(dated, IntCell(date_fipi.year))),
                         "Month", PerRow(dated, IntCell(date_fipi.month)))   \* lines 148-149

\* lines 57-66: the date of '01-03-2024fipi.csv'
date_fipi == [kind |-> "date", year |-> 2024, month |-> 3, day |-> 1]

\* clean_dataframe on its own, run on a frame read from a CSV file and then
\* on its own output: frames of up to MaxCdRows rows
Zeros(n) == [k \in 1..n |-> "0"]

CdValues ==
    {Text(Wrapped1234), Float(FALSE, <<"1", "2">>, <<"5">>), NaN,
     Text(<<"0", ".">> \o Zeros(4) \o <<"1">>),
     Text(<<"1">> \o Zeros(16))}

CdRow(sec_code, client_type, market_type, value) ==
    [c \in Elems(ReadColumns) |->
        CASE c = "SEC CODE"    -> sec_code
          [] c = "SECTOR NAME" -> IF sec_code = NaN THEN NaN ELSE Word("BANKS")
          [] c = "CLIENT TYPE" -> client_type
          [] c = "MARKET TYPE" -> market_type
          [] OTHER             -> value]

CdRowKinds ==
    {CdRow(Word("0807"), Word("FOREIGN CORPORATES"), Word("REGULAR"), v) : v \in CdValues}
    \cup {CdRow(Word("0807"), Word("BANKS / DFI"), Word("FUTURE CONTRACT-JAN"), Text(Wrapped1234)),
          CdRow(Word("0807"), Word(" "), Word("REGULAR"), NaN),
          CdRow(NaN, Word("TOTAL"), NaN, Text(Wrapped1234))}

CdFrames ==
    {CdFrame(ReadColumns, rows) : rows \in UNION {[1..n -> CdRowKinds] : n \in 0..MaxCdRows}}
    \cup {CdFrame(SubSeq(ReadColumns, 1, Len(ReadColumns) - 1), <<>>)}

CleanDataframe ==
    /\ cd_once = Idle
    /\ cd_once' = clean_dataframe(cd_df, date_fipi)
    /\ UNCHANGED <<cd_df, cd_twice, execVars, msVars, omtsVars, locVars, smVars, stVars,
                   mvVars, evVars, cnVars, ptVars>>

\* the cleaner handed its own output
CleanAgain ==
    /\ cd_once # Idle /\ cd_once.kind = "frame" /\ cd_twice = Idle
    /\ cd_twice' = clean_dataframe(cd_once, date_fipi)
    /\ UNCHANGED <<cd_df, cd_once, execVars, msVars, omtsVars, locVars, smVars, stVars,
                   mvVars, evVars, cnVars, ptVars>>

InitCleaner ==
    /\ cd_df \in CdFrames /\ cd_once = Idle /\ cd_twice = Idle
    /\ ExecIdle /\ MsIdle /\ OmtsIdle /\ LocIdle /\ SmIdle /\ StIdle /\ MvIdle /\ EvIdle /\ PtIdle
    /\ CnIdle

NextCleaner ==
    \/ CleanDataframe
    \/ CleanAgain

SpecCleaner == InitCleaner /\ [][NextCleaner]_vars

-----------------------------------------------------------------------------
(* Properties of clean_dataframe (SpecCleaner)                             *)

\* the numeric cells of the cleaned frame are fixed points of clean_numeric_re
CdValuesStable ==
    \A i \in 1..Len(cd_once.rows) : \A k \in 1..Len(cols_to_convert) :
        clean_numeric_re(cd_once.rows[i][cols_to_convert[k]])
            = cd_once.rows[i][cols_to_convert[k]]

\* C17: Table Cleaner idempotence.  Applying the cleaner to a grid that is
\* already its output yields an identical grid: the second run returns the
\* frame it was given, no row is dropped and no numeric value changes.
C17_Idempotent ==
    /\ cd_twice # Idle => cd_twice = cd_once
    /\ (cd_once # Idle /\ cd_once.kind = "frame") => CdValuesStable

-----------------------------------------------------------------------------
(* What the dispatcher receives from the flat-file parsers (Spec)          *)

\* the entries of df_list whose source is a file with this extension and stem
EntriesOf(suffix, stem) ==
    {i \in 1..Len(df_list) : /\ Lower(directory[df_list[i].src].suffix) = suffix
                             /\ directory[df_list[i].src].stem = stem}

\* C18: index-weight parser date error.  When the token after "indhist" in
\* the file name does not parse as day-month-year, get_indhist returns no
\* table: what the dispatcher holds for such a file is never a table, and so
\* never a table without the date column.
C18_DateErrorFails ==
    \A i \in EntriesOf(".xls", "indhist") :
        directory[df_list[i].src].content = "baddate" =>
            df_list[i].df.kind # "frame"

\* C19: market-summary parser failure.  When the listing is empty or cannot
\* be parsed, get_market_summary returns no value to its caller, and the
\* dispatcher appends no entry for that file: every market-summary entry of
\* df_list is the pair of tables of a listing that has rows.
C19_FailureNotAppended ==
    \A i \in EntriesOf(".z", "mkt_summary") :
        /\ directory[df_list[i].src].content # "empty"
        /\ df_list[i].df # None

-----------------------------------------------------------------------------
(* The six-month summary of a table without the marker row (SpecSixMonth)  *)

\* C20: absent marker degrades to an empty table.  When no row of the
\* page's table has the Section 13 header in its first cell, the extractor
\* returns an empty table with the fixed 7-column schema and logs no error.
C20_AbsentMarker ==
    (sm_result # Idle /\ sm_table.kind = "table" /\ MarkerRows(sm_table.rows) = {}) =>
        /\ sm_result # None
        /\ sm_result.kind = "frame"
        /\ sm_result.columns = SmSchema
        /\ Len(sm_result.columns) = 7
        /\ sm_result.rows = <<>>

\* C20 witness: a table of a full data row and a Section 14 row, without
\* the marker row, has been extracted into the empty 7-column table.
C20_Witness ==
    /\ sm_table = Table(<<Fill(Month, Amount, 7), Fill(S14, NoneCell, 7)>>)
    /\ sm_result # Idle /\ sm_result # None
    /\ sm_result.columns = SmSchema
    /\ sm_result.rows = <<>>

-----------------------------------------------------------------------------
(* Where the six-month scan stops (SpecSixMonth)                           *)

\* C21: six-month-summary stop condition.  Scanning stops at the first
\* appended row one of whose cells contains the Section 14 sentinel as a
\* substring, whether or not the cell equals it: no row after that row is
\* among the collected rows.
C21_StopsAtSubstring ==
    (sm_result # Idle /\ sm_result.kind = "frame" /\ MarkerRows(sm_table.rows) # {}) =>
        \A i \in ReturnedRows :
            i <= SentinelRow(sm_table.rows, SetMin(MarkerRows(sm_table.rows)))

-----------------------------------------------------------------------------
(* PDFExtraction.process_table, section by section                         *)
(* (quotationextraction.py 53-71).  pt_doc holds what each extractor reads *)
(* from the opened document: the CreationDate entry and the table of the   *)
(* Section 1 page, the pages as extract_table() gives them to the event    *)
(* extractor, the pages as extract_tables() gives them to the sector       *)
(* extractor, and the table of the Section 13 page.  pt_items is the       *)
(* located sections with their page lists, in the order of the dict, or    *)
(* None when the locator returned nothing.                                 *)

Item(table_name, page_nums) == [table_name |-> table_name, page_nums |-> page_nums]

\* lines 101, 137, 186, 237: the extractor's own handler has logged
ExtractorLogged(table_name, df) ==
    IF table_name = S5 THEN df.logged ELSE df = None

\* the extractor's exception leaves the extractor
Extract_Uncaught(doc, item) ==
    LET table_name == item.table_name
        page_nums == item.page_nums
        df == CASE table_name = S1  -> extract_macro_view(doc.meta, doc.macro)
                [] table_name = S5  -> extract_event_table(doc.events, page_nums)
                [] table_name = S12 -> extract_sector_table(doc.sectors, page_nums)
                [] table_name = S13 -> six_month_market_summary(doc.six)
    IN  IF ExtractorLogged(table_name, df) THEN Raised("Exception") ELSE df

\* lines 61-68: the value stored for one item of the dict
Extract(doc, item) ==
    LET table_name == item.table_name
        page_nums == item.page_nums
    IN  CASE table_name = S1  -> extract_macro_view(doc.meta, doc.macro)
          [] table_name = S5  -> extract_event_table(doc.events, page_nums)
          [] table_name = S12 -> extract_sector_table(doc.sectors, page_nums)
          [] table_name = S13 -> six_month_market_summary(doc.six)

\* table_data[table_name] = ...
SetItem(data, table_name, df) ==
    [n \in DOMAIN data \cup {table_name} |-> IF n = table_name THEN df ELSE data[n]]

\* one pass of the loop of line 60
ProcessSection ==
    /\ pt_result = Idle /\ pt_items # None /\ pt_pos <= Len(pt_items.items)
    /\ LET item == pt_items.items[pt_pos]
           df == Extract(pt_doc, item)
       IN  IF df.kind = "raised"
           THEN /\ pt_result' = None                             \* lines 70-71
                /\ pt_log' = Append(pt_log, LogRec("error", "process_table"))
                /\ UNCHANGED <<pt_pos, table_data>>
           ELSE /\ table_data' = SetItem(table_data, item.table_name, df)
                /\ pt_log' = IF ExtractorLogged(item.table_name, df)
                             THEN Append(pt_log, LogRec("error", ExtractorOf(item.table_name)))
                             ELSE pt_log
                /\ pt_pos' = pt_pos + 1
                /\ UNCHANGED pt_result
    /\ UNCHANGED <<pt_doc, pt_items, execVars, msVars, omtsVars, locVars, smVars, stVars,
                   mvVars, evVars, cnVars, cdVars>>

\* line 69: return table_data
ProcessReturn ==
    /\ pt_result = Idle /\ pt_items # None /\ pt_pos > Len(pt_items.items)
    /\ pt_result' = [kind |-> "dict", tables |-> table_data]
    /\ UNCHANGED <<pt_doc, pt_items, pt_pos, table_data, pt_log, execVars, msVars, omtsVars,
                   locVars, smVars, stVars, mvVars, evVars, cnVars, cdVars>>

\* line 60 on the None the locator left after its own failure: lines 70-71
ProcessNoDict ==
    /\ pt_result = Idle /\ pt_items = None
    /\ pt_result' = None
    /\ pt_log' = Append(pt_log, LogRec("error", "process_table"))
    /\ UNCHANGED <<pt_doc, pt_items, pt_pos, table_data, execVars, msVars, omtsVars,
                   locVars, smVars, stVars, mvVars, evVars, cnVars, cdVars>>

\* the documents of the exploration
PtEventsGood == <<NoTable, Table(<<EvHeader, EvFirst, EvSecond>>), Table(<<EvHeader, EvSecond>>)>>
PtEventsBad  == <<NoTable, Table(<<EvNoDate, EvFirst>>), Table(<<EvPartial>>)>>
PtSectors    == << << >>, << <<HeaderRow, DataRow, DataRow>> >>, << <<HeaderRow, DataRow>> >> >>
PtSixGood    == Table(<<Fill(S13, Amount, 7), Fill(Month, Amount, 7)>>)

PtDocuments ==
    [meta    : {"D:20240102093000+05'00'", NoneCell},
     macro   : {Table(<< <<Companies, Amount, Trades, Plain>>,
                         <<Capital, Plain, Turnover, Amount>> >>)},
     events  : {PtEventsGood, PtEventsBad},
     sectors : {PtSectors},
     six     : {PtSixGood, NoTable}]

\* the dicts the locator can leave: located sections in any order of first
\* appearance, each with one or two pages
PtItems ==
    {[kind |-> "dict", items |-> items] : items \in
     {items \in UNION {[1..n -> {Item(name, nums) : name \in {S1, S5, S12, S13},
                                                   nums \in {<<2>>, <<2, 3>>}}] : n \in 0..4} :
        \A i, j \in 1..Len(items) : i # j => items[i].table_name # items[j].table_name}}
    \cup {None}

InitProcess ==
    /\ pt_doc \in PtDocuments /\ pt_items \in PtItems
    /\ pt_pos = 1 /\ table_data = EmptyDict /\ pt_log = <<>> /\ pt_result = Idle
    /\ ExecIdle /\ MsIdle /\ OmtsIdle /\ LocIdle /\ SmIdle /\ StIdle /\ MvIdle /\ EvIdle
    /\ CnIdle /\ CdIdle

NextProcess == ProcessSection \/ ProcessReturn \/ ProcessNoDict

SpecProcess == InitProcess /\ [][NextProcess]_vars

-----------------------------------------------------------------------------
(* Section isolation inside process_table (SpecProcess)                    *)

\* the inputs of the exploration on which the section's extractor fails:
\* no CreationDate entry, an event page without a Date column or without a
\* complete row, a sector page list of one entry, no table on the page
SectionFails(doc, item) ==
    CASE item.table_name = S1  -> doc.meta = NoneCell
      [] item.table_name = S5  -> doc.events = PtEventsBad
      [] item.table_name = S12 -> Len(item.page_nums) < 2
      [] item.table_name = S13 -> doc.six = NoTable

LoggedBy(extractor) == \E k \in 1..Len(pt_log) : pt_log[k] = LogRec("error", extractor)

\* C22: section isolation inside one PDF.  When the extractor of a located
\* section fails, the failure is logged by that extractor and the section
\* yields no table, while process_table runs the extractor of every other
\* located section and returns the mapping with their tables.
C22_SectionIsolation ==
    (pt_result # Idle /\ pt_items # None) =>
        /\ pt_result # None
        /\ pt_result.kind = "dict"
        /\ DOMAIN pt_result.tables =
               {pt_items.items[i].table_name : i \in 1..Len(pt_items.items)}
        /\ \A i \in 1..Len(pt_items.items) :
              LET item == pt_items.items[i]
                  df == pt_result.tables[item.table_name]
              IN  IF SectionFails(pt_doc, item)
                  THEN /\ df = None \/ df.rows = <<>>
                       /\ LoggedBy(ExtractorOf(item.table_name))
                  ELSE /\ df # None /\ df.kind = "frame" /\ df.rows # <<>>
                       /\ ~LoggedBy(ExtractorOf(item.table_name))
        /\ ~LoggedBy("process_table")

\* C22 witness: the macro view, located first, has failed for want of a
\* creation date, and the mapping is returned with the tables of the three
\* sections that follow it.
C22_Witness ==
    /\ pt_result # Idle /\ pt_items # None /\ pt_result # None
    /\ Len(pt_items.items) = 4
    /\ pt_items.items[1].table_name = S1
    /\ pt_doc.meta = NoneCell
    /\ pt_result.tables[S1] = None
    /\ pt_log = <<LogRec("error", "extract_macro_view")>>
    /\ \A n \in {S5, S12, S13} :
          pt_result.tables[n] # None /\ pt_result.tables[n].rows # <<>>

-----------------------------------------------------------------------------
(* The pages a page list of several entries gets extracted (SpecEvent)     *)

\* the data rows of the pages recorded in the list, in the order of the list
RECURSIVE EvPlacesOf(_)
EvPlacesOf(nums) ==
    IF nums = <<>> THEN <<>> ELSE EvDataPlaces(Head(nums)) \o EvPlacesOf(Tail(nums))

\* C23: page-range coverage.  For a page list of two or more entries the
\* event-table extractor extracts every page recorded in the list, each once
\* and in ascending order, and returns the row-wise concatenation of the
\* per-page results in that order: no recorded page is left out.
C23_EveryRecordedPage ==
    (ev_result # Idle /\ ~ev_result.logged /\ Len(ev_nums) >= 2) =>
        EvReturnedPlaces = EvPlacesOf(ev_nums)

-----------------------------------------------------------------------------
(* The page numbers the locator records (SpecLocator)                      *)

\* how many entries of the list are the number n
Occurrences(list, n) == Cardinality({k \in 1..Len(list) : list[k] = n})

\* C24: every page number recorded for an N-page document lies in 2..N, so
\* the 0-based index n - 1 an extractor reads is an index of the document;
\* each scanned page contributes at most one number to each header's list.
C24_RecordedInDocument ==
    (target_page_nums_dict # Idle /\ target_page_nums_dict # None) =>
        LET nums == target_page_nums_dict.pages
            N == Len(pdf_pages)
        IN  \A h \in DOMAIN nums :
                /\ \A k \in 1..Len(nums[h]) :
                      /\ nums[h][k] \in 2..N
                      /\ nums[h][k] - 1 \in 0..(N - 1)
                /\ \A p \in 1..N : Occurrences(nums[h], p) <= 1

\* C24 witness: the last page of a three-page document holds two headers
\* and has been recorded, as page 3, once in the list of each.
C24_Witness ==
    /\ Len(pdf_pages) = 3
    /\ pdf_pages[3].headers = {S1, S5}
    /\ pdf_pages[2].headers = {S5}
    /\ target_page_nums_dict # Idle /\ target_page_nums_dict # None
    /\ target_page_nums_dict.pages[S1] = <<3>>
    /\ target_page_nums_dict.pages[S5] = <<2, 3>>

-----------------------------------------------------------------------------
(* When the data folder is emptied (Spec)                                  *)

\* deletion has run only in a finished call that was asked to delete, and a
\* finished call has deleted exactly when it was asked to
C25_DeletedIffAsked ==
    /\ deleted => pc = "done" /\ files_deletion
    /\ pc = "done" => (deleted <=> files_deletion)
    /\ pc = "loop" => ~deleted

\* deletion happens in the step that follows the end of the loops, and that
\* step hands back the list as the loops left it
C25_AfterLoopOnly ==
    /\ deleted' # deleted => pc = "after" /\ pc' = "done"
    /\ pc = "after" => df_list' = df_list

\* C25: in execution_by_extension the file-deletion step runs only after
\* the dispatch loop has ended, normally or through a caught exception, runs
\* if and only if files_deletion is true, and the list collected before any
\* exception is returned afterwards; no file is deleted while files are
\* still being parsed.
C25_DeletionAfterLoop == [](C25_DeletedIffAsked) /\ [][C25_AfterLoopOnly]_vars

\* C25 witness: the loop has ended through a caught exception after a table
\* was appended, the files were deleted as asked, and the call has returned
\* the list with that table.
C25_Witness ==
    /\ pc = "done" /\ files_deletion /\ deleted
    /\ df_list # <<>>
    /\ \E k \in 1..Len(log) : log[k] = LogRec("info", "execution_by_extension")

=============================================================================
